---- MODULE Spec2Model ----
(***************************************************************************)
(* DNS Doctor worker: the resolution pipeline of worker/src/dns.ts         *)
(* (queryDNS, queryAllRecords, checkPropagation, queryDNSWithPropagation)  *)
(* and the rule engine of worker/src/diagnose.ts (analyzeDNS).             *)
(*                                                                         *)
(* Strings the code inspects character by character (TXT payloads, NS      *)
(* targets, owner names) are sequences of one-character strings, so that   *)
(* toLowerCase, startsWith, endsWith, split and the SPF regular expression *)
(* are computed, not assumed.  Names the code only compares as a whole     *)
(* (record types, resolver URLs, issue types) are TLA+ strings.            *)
(***************************************************************************)
EXTENDS Integers, Sequences, FiniteSets, TLC

VARIABLES
    phase,       \* position of the diagnostic run (see Phases)
    primary,     \* primary[t]: state of queryAllRecords' branch for type t
    results,     \* the AllDNSResults object built by queryAllRecords
    keyOrder,    \* insertion order of the keys of results that hold records
    prop,        \* prop[t][u]: state of checkPropagation(t)'s branch for resolver u
    propMap,     \* propMap[t]: the local `propagation` object of checkPropagation(t)
    report,      \* the DiagnosticResult returned by analyzeDNS
    call,        \* one queryDNS call taken in isolation: its arguments and result
    sent,        \* sent[t][u]: what resolver u sent to checkPropagation(t)'s fetch
    okSeen,      \* some fetch of the run ended with a parsed response
    store,       \* a DomainHistory object: its storage and its last response
    ai,          \* one analyzeWithAI call: its arguments, position and result
    req          \* one GET /api/dns request: its position and what it issued

vars ==
    <<phase, primary, results, keyOrder, prop, propMap, report, call, sent, okSeen,
      store, ai, req>>

----------------------------------------------------------------------------
(* constants.ts *)

\* DNS_RECORD_TYPES: record type name -> RFC 1035 type number
DNS_RECORD_TYPES ==
    [A |-> 1, AAAA |-> 28, CNAME |-> 5, MX |-> 15, NS |-> 2, TXT |-> 16,
     SOA |-> 6, CAA |-> 257, RRSIG |-> 46]

\* RESOLVERS: resolver name -> DoH endpoint
RESOLVERS ==
    [CLOUDFLARE |-> "https://cloudflare-dns.com/dns-query",
     GOOGLE     |-> "https://dns.google/resolve",
     QUAD9      |-> "https://dns.quad9.net/dns-query"]

\* Object.entries(RESOLVERS), in declaration order
ResolverEntries ==
    << <<"CLOUDFLARE", RESOLVERS.CLOUDFLARE>>,
       <<"GOOGLE", RESOLVERS.GOOGLE>>,
       <<"QUAD9", RESOLVERS.QUAD9>> >>

ResolverUrls == {ResolverEntries[i][2] : i \in DOMAIN ResolverEntries}

ResolverName(u) ==
    ResolverEntries[CHOOSE i \in DOMAIN ResolverEntries : ResolverEntries[i][2] = u][1]

\* QUERY_RECORD_TYPES, in declaration order
QUERY_RECORD_TYPES == <<"A", "AAAA", "CNAME", "MX", "NS", "TXT", "SOA", "CAA">>

QueryTypes == {QUERY_RECORD_TYPES[i] : i \in DOMAIN QUERY_RECORD_TYPES}

\* TTL_THRESHOLDS
MIN_RECOMMENDED == 300
MAX_RECOMMENDED == 86400

----------------------------------------------------------------------------
(* Values *)

\* JavaScript null, as queryDNS returns it
NULL == [isNull |-> TRUE]

\* A parsed DNSResponse; hasAnswer is FALSE when the body has no Answer member
DNSResponse(hasAnswer, answer) ==
    [isNull |-> FALSE, hasAnswer |-> hasAnswer, Answer |-> answer]

\* A DNSRecord (its numeric `type` member is read by no code of the worker)
Rec(name, ttl, data) == [name |-> name, TTL |-> ttl, data |-> data]

\* How one fetch() of queryDNS ends: the promise rejects (network error), or
\* it resolves with response.ok false, or with a body response.json() cannot
\* parse, or with a parsed body.
FetchKinds == {"network_error", "http_error", "bad_body", "ok"}

Fetch(kind, data) == [kind |-> kind, data |-> data]

----------------------------------------------------------------------------
(* dns.ts: queryDNS *)

\* Lines 17-44, the body of the try block: the value returned, or threw = TRUE
\* when a statement of the block throws.
queryDNSTry(recordType, resolver, fx) ==
    LET typeNumber == IF recordType \in DOMAIN DNS_RECORD_TYPES
                      THEN DNS_RECORD_TYPES[recordType] ELSE 0
    IN  IF typeNumber = 0 THEN [threw |-> TRUE, value |-> NULL]
        ELSE IF fx.kind = "network_error" THEN [threw |-> TRUE, value |-> NULL]
        ELSE IF fx.kind = "http_error" THEN [threw |-> TRUE, value |-> NULL]
        ELSE IF fx.kind = "bad_body" THEN [threw |-> TRUE, value |-> NULL]
        ELSE [threw |-> FALSE, value |-> fx.data]

\* queryDNS with the catch clause of lines 45-48 left out
queryDNS_NoCatch(recordType, resolver, fx) ==
    queryDNSTry(recordType, resolver, fx)

\* queryDNS: the try block, and the catch clause that turns every throw into
\* a returned null.  (domain only feeds the query URL; both URL branches of
\* lines 24-30 build the same URL.)
queryDNS(recordType, resolver, fx) ==
    LET t == queryDNSTry(recordType, resolver, fx)
    IN  IF t.threw THEN [threw |-> FALSE, value |-> NULL] ELSE t

\* `response?.Answer || []` of line 63, `response.Answer || []` of line 103
AnswerOrEmpty(response) ==
    IF response.isNull THEN <<>>
    ELSE IF response.hasAnswer THEN response.Answer ELSE <<>>

----------------------------------------------------------------------------
(* JavaScript string and array methods used by diagnose.ts *)

UpperChars ==
    <<"A","B","C","D","E","F","G","H","I","J","K","L","M",
      "N","O","P","Q","R","S","T","U","V","W","X","Y","Z">>
LowerChars ==
    <<"a","b","c","d","e","f","g","h","i","j","k","l","m",
      "n","o","p","q","r","s","t","u","v","w","x","y","z">>

LowerOf == [c \in {UpperChars[i] : i \in DOMAIN UpperChars} |->
               LowerChars[CHOOSE i \in DOMAIN UpperChars : UpperChars[i] = c]]

LowerChar(c) == IF c \in DOMAIN LowerOf THEN LowerOf[c] ELSE c

\* String.prototype.toLowerCase
toLowerCase(s) == [i \in 1..Len(s) |-> LowerChar(s[i])]

\* String.prototype.startsWith / endsWith
startsWith(s, p) == Len(s) >= Len(p) /\ SubSeq(s, 1, Len(p)) = p
endsWith(s, p) == Len(s) >= Len(p) /\ SubSeq(s, Len(s) - Len(p) + 1, Len(s)) = p

\* String.prototype.split(' '): the pieces between single spaces, empty
\* pieces included
RECURSIVE split(_)
split(s) ==
    IF \A i \in 1..Len(s) : s[i] # " " THEN <<s>>
    ELSE LET i == CHOOSE k \in 1..Len(s) :
                      s[k] = " " /\ \A j \in 1..(k - 1) : s[j] # " "
         IN  <<SubSeq(s, 1, i - 1)>> \o split(SubSeq(s, i + 1, Len(s)))

\* [...new Set(seq)]: the elements of seq in order of first occurrence
SetOrder(seq) ==
    LET firsts == {i \in DOMAIN seq : \A j \in 1..(i - 1) : seq[j] # seq[i]}
    IN  [k \in 1..Cardinality(firsts) |->
            seq[CHOOSE i \in firsts : Cardinality({j \in firsts : j < i}) = k - 1]]

ToSet(seq) == {seq[i] : i \in DOMAIN seq}

\* seqs[1] \o seqs[2] \o ...
RECURSIVE Flatten(_)
Flatten(seqs) ==
    IF seqs = <<>> THEN <<>> ELSE Head(seqs) \o Flatten(Tail(seqs))

\* String literals of diagnose.ts
STR_V_SPF1 == <<"v","=","s","p","f","1">>
STR_V_DMARC1 == <<"v","=","d","m","a","r","c","1">>
STR_ALL == <<"a","l","l">>
STR_DOT == <<".">>
STR_AT == <<"@">>

----------------------------------------------------------------------------
(* diagnose.ts.  dnsResults is [byType |-> the AllDNSResults object as a   *)
(* function of its keys, keys |-> the keys that hold records, in insertion *)
(* order].  An object used as a map is a function: the order of its keys   *)
(* is kept only where the code turns it into the order of an array, which  *)
(* checkTTL does for the keys that hold records.  An issue is its type,    *)
(* severity and details; its message is fixed by these.                    *)

NoDetails == [none |-> TRUE]

Issue(type, severity, details) ==
    [type |-> type, severity |-> severity, details |-> details]

Has(dnsResults, t) == t \in DOMAIN dnsResults.byType

\* /^[+\-~?]?(all|include|a|mx|ptr|ip4|ip6|exists|redirect|exp)/i .test(part)
Mechanisms ==
    { <<"a","l","l">>, <<"i","n","c","l","u","d","e">>, <<"a">>, <<"m","x">>,
      <<"p","t","r">>, <<"i","p","4">>, <<"i","p","6">>,
      <<"e","x","i","s","t","s">>, <<"r","e","d","i","r","e","c","t">>,
      <<"e","x","p">> }

Qualifiers == {"+", "-", "~", "?"}

validMechanisms(part) ==
    LET p == toLowerCase(part)
        mech(x) == \E m \in Mechanisms : startsWith(x, m)
    IN  \/ mech(p)
        \/ Len(p) >= 1 /\ p[1] \in Qualifiers /\ mech(Tail(p))

\* validateSPF, lines 9-28
validateSPF(spfRecord) ==
    IF ~startsWith(spfRecord, STR_V_SPF1) THEN FALSE
    ELSE LET parts == Tail(split(spfRecord))
         IN  \A i \in DOMAIN parts :
                 \/ parts[i] = <<>>
                 \/ parts[i] = STR_ALL
                 \/ validMechanisms(parts[i])

\* The test of line 59 without its size comparison
setsDiffer_SubsetOnly(nsSet, primaryNS) ==
    ~(\A ns \in nsSet : ns \in primaryNS)

\* The test of line 59, "Check if sets differ"
setsDiffer(nsSet, primaryNS) ==
    \/ Cardinality(nsSet) # Cardinality(primaryNS)
    \/ ~(\A ns \in nsSet : ns \in primaryNS)

\* checkNSMismatch, lines 35-79
checkNSMismatch(dnsResults) ==
    IF ~Has(dnsResults, "NS") \/ Len(dnsResults.byType["NS"].primaryRecords) = 0
    THEN <<>>
    ELSE
      LET nsResults == dnsResults.byType["NS"]
          lowered(records) == [i \in DOMAIN records |-> toLowerCase(records[i].data)]
          compared == {u \in DOMAIN nsResults.propagation :
                           ~nsResults.propagation[u].hasError}
          \* primaryNS (line 44) and nsSet (line 55) are bound to their values
          hasMismatch ==
              \E primaryNS \in {ToSet(lowered(nsResults.primaryRecords))} :
                \E u \in compared :
                  \E nsSet \in {ToSet(lowered(nsResults.propagation[u].records))} :
                      setsDiffer(nsSet, primaryNS)
      IN  IF hasMismatch
          THEN << Issue("ns_mismatch", "error",
                        [primary |-> SetOrder(lowered(nsResults.primaryRecords)),
                         resolvers |->
                            [u \in compared |->
                                SetOrder(lowered(nsResults.propagation[u].records))]]) >>
          ELSE <<>>

\* checkCNAMEAtApex with the AAAA half of line 103's condition left out
checkCNAMEAtApex_OnlyA(dnsResults) ==
    IF ~Has(dnsResults, "CNAME") \/ Len(dnsResults.byType["CNAME"].primaryRecords) = 0
    THEN <<>>
    ELSE
      LET cnameRecords == dnsResults.byType["CNAME"].primaryRecords
          cnameAtApex ==
              \E i \in DOMAIN cnameRecords :
                  LET name == toLowerCase(cnameRecords[i].name)
                  IN  endsWith(name, STR_DOT) \/ name = STR_AT
          hasA == Has(dnsResults, "A") /\ Len(dnsResults.byType["A"].primaryRecords) > 0
      IN  IF cnameAtApex /\ hasA
          THEN << Issue("cname_at_apex", "error", [cnameRecords |-> cnameRecords]) >>
          ELSE <<>>

\* checkCNAMEAtApex, lines 86-115
checkCNAMEAtApex(dnsResults) ==
    IF ~Has(dnsResults, "CNAME") \/ Len(dnsResults.byType["CNAME"].primaryRecords) = 0
    THEN <<>>
    ELSE
      LET cnameRecords == dnsResults.byType["CNAME"].primaryRecords
          cnameAtApex ==
              \E i \in DOMAIN cnameRecords :
                  LET name == toLowerCase(cnameRecords[i].name)
                  IN  endsWith(name, STR_DOT) \/ name = STR_AT
          hasA == Has(dnsResults, "A") /\ Len(dnsResults.byType["A"].primaryRecords) > 0
          hasAAAA == Has(dnsResults, "AAAA")
                         /\ Len(dnsResults.byType["AAAA"].primaryRecords) > 0
      IN  IF cnameAtApex /\ (hasA \/ hasAAAA)
          THEN << Issue("cname_at_apex", "error", [cnameRecords |-> cnameRecords]) >>
          ELSE <<>>

\* checkMissingAAAA without the test of line 128
checkMissingAAAA_NoATest(dnsResults) ==
    IF ~Has(dnsResults, "AAAA")
         \/ Len(dnsResults.byType["AAAA"].primaryRecords) = 0
    THEN << Issue("missing_aaaa", "warning",
                  [aRecords |-> Len(dnsResults.byType["A"].primaryRecords),
                   aaaaRecords |-> 0]) >>
    ELSE <<>>

\* checkMissingAAAA, lines 122-143
checkMissingAAAA(dnsResults) ==
    IF Has(dnsResults, "A") /\ Len(dnsResults.byType["A"].primaryRecords) > 0
    THEN IF ~Has(dnsResults, "AAAA")
             \/ Len(dnsResults.byType["AAAA"].primaryRecords) = 0
         THEN << Issue("missing_aaaa", "warning",
                       [aRecords |-> Len(dnsResults.byType["A"].primaryRecords),
                        aaaaRecords |-> 0]) >>
         ELSE <<>>
    ELSE <<>>

\* checkEmailSetup with lines 160 and 163 written without toLowerCase()
checkEmailSetup_CaseSensitive(dnsResults) ==
    LET hasMX == Has(dnsResults, "MX") /\ Len(dnsResults.byType["MX"].primaryRecords) > 0
        hasTXT == Has(dnsResults, "TXT")
                      /\ Len(dnsResults.byType["TXT"].primaryRecords) > 0
        txt == IF Has(dnsResults, "TXT")
               THEN dnsResults.byType["TXT"].primaryRecords ELSE <<>>
        hasSPF == \E i \in DOMAIN txt : startsWith(txt[i].data, STR_V_SPF1)
        hasDMARC == \E i \in DOMAIN txt : startsWith(txt[i].data, STR_V_DMARC1)
    IN  IF ~hasMX /\ ~hasTXT
        THEN << Issue("missing_email_setup", "info", NoDetails) >>
        ELSE (IF hasMX /\ ~hasSPF
              THEN << Issue("missing_spf", "warning", NoDetails) >> ELSE <<>>)
             \o
             (IF hasMX /\ ~hasDMARC
              THEN << Issue("missing_dmarc", "info", NoDetails) >> ELSE <<>>)

\* checkEmailSetup with line 166 written `!hasMX && hasTXT`
checkEmailSetup_LostNegation(dnsResults) ==
    LET hasMX == Has(dnsResults, "MX") /\ Len(dnsResults.byType["MX"].primaryRecords) > 0
        hasTXT == Has(dnsResults, "TXT")
                      /\ Len(dnsResults.byType["TXT"].primaryRecords) > 0
    IN  IF ~hasMX /\ hasTXT
        THEN << Issue("missing_email_setup", "info", NoDetails) >>
        ELSE <<>>

\* checkEmailSetup, lines 150-190
checkEmailSetup(dnsResults) ==
    LET hasMX == Has(dnsResults, "MX") /\ Len(dnsResults.byType["MX"].primaryRecords) > 0
        hasTXT == Has(dnsResults, "TXT")
                      /\ Len(dnsResults.byType["TXT"].primaryRecords) > 0
        txt == IF Has(dnsResults, "TXT")
               THEN dnsResults.byType["TXT"].primaryRecords ELSE <<>>
        hasSPF == \E i \in DOMAIN txt :
                      startsWith(toLowerCase(txt[i].data), STR_V_SPF1)
        hasDMARC == \E i \in DOMAIN txt :
                        startsWith(toLowerCase(txt[i].data), STR_V_DMARC1)
    IN  IF ~hasMX /\ ~hasTXT
        THEN << Issue("missing_email_setup", "info", NoDetails) >>
        ELSE (IF hasMX /\ ~hasSPF
              THEN << Issue("missing_spf", "warning", NoDetails) >> ELSE <<>>)
             \o
             (IF hasMX /\ ~hasDMARC
              THEN << Issue("missing_dmarc", "info", NoDetails) >> ELSE <<>>)

\* checkSPFSyntax pushing one issue for each part that fails the test of
\* line 22, not one for the record
checkSPFSyntax_PerToken(dnsResults) ==
    IF ~Has(dnsResults, "TXT") \/ Len(dnsResults.byType["TXT"].primaryRecords) = 0
    THEN <<>>
    ELSE
      LET isSPF(r) == startsWith(toLowerCase(r.data), STR_V_SPF1)
          spfRecords == SelectSeq(dnsResults.byType["TXT"].primaryRecords, isSPF)
          issue(r) == Issue("spf_syntax_error", "error", [record |-> r.data])
          perPart(r) ==
              LET parts == Tail(split(r.data))
              IN  Flatten([k \in DOMAIN parts |->
                      IF \/ parts[k] = <<>>
                         \/ parts[k] = STR_ALL
                         \/ validMechanisms(parts[k])
                      THEN <<>> ELSE << issue(r) >>])
      IN  Flatten([i \in DOMAIN spfRecords |->
                      IF ~startsWith(spfRecords[i].data, STR_V_SPF1)
                      THEN << issue(spfRecords[i]) >>
                      ELSE perPart(spfRecords[i])])

\* checkSPFSyntax, lines 197-224
checkSPFSyntax(dnsResults) ==
    IF ~Has(dnsResults, "TXT") \/ Len(dnsResults.byType["TXT"].primaryRecords) = 0
    THEN <<>>
    ELSE
      LET isSPF(r) == startsWith(toLowerCase(r.data), STR_V_SPF1)
          spfRecords == SelectSeq(dnsResults.byType["TXT"].primaryRecords, isSPF)
      IN  Flatten([i \in DOMAIN spfRecords |->
                      IF ~validateSPF(spfRecords[i].data)
                      THEN << Issue("spf_syntax_error", "error",
                                    [record |-> spfRecords[i].data]) >>
                      ELSE <<>>])

\* Lines 236-260 with the comparisons of lines 238 and 249 written <= and >=
ttlIssues_Inclusive(recordType, record) ==
    IF record.TTL <= MIN_RECOMMENDED
    THEN << Issue("ttl_too_low", "warning",
                  [recordType |-> recordType, ttl |-> record.TTL]) >>
    ELSE IF record.TTL >= MAX_RECOMMENDED
    THEN << Issue("ttl_too_high", "info",
                  [recordType |-> recordType, ttl |-> record.TTL]) >>
    ELSE <<>>

\* The issues checkTTL pushes for one record, lines 236-260
ttlIssues(recordType, record) ==
    IF record.TTL < MIN_RECOMMENDED
    THEN << Issue("ttl_too_low", "warning",
                  [recordType |-> recordType, ttl |-> record.TTL]) >>
    ELSE IF record.TTL > MAX_RECOMMENDED
    THEN << Issue("ttl_too_high", "info",
                  [recordType |-> recordType, ttl |-> record.TTL]) >>
    ELSE <<>>

\* checkTTL, lines 231-265
checkTTL(dnsResults) ==
    Flatten([k \in DOMAIN dnsResults.keys |->
        LET recordType == dnsResults.keys[k]
            records == dnsResults.byType[recordType].primaryRecords
        IN  Flatten([i \in DOMAIN records |-> ttlIssues(recordType, records[i])])])

\* checkDNSSEC pushing its issue only when some record type holds records
checkDNSSEC_OnlyWithRecords(dnsResults) ==
    IF dnsResults.keys = <<>> THEN <<>>
    ELSE << Issue("dnssec_check", "info",
                  [note |-> "DNSSEC validation typically requires specialized queries"]) >>

\* checkDNSSEC, lines 272-291
checkDNSSEC(dnsResults) ==
    << Issue("dnssec_check", "info",
             [note |-> "DNSSEC validation typically requires specialized queries"]) >>

\* The count of line 317 written with 'warn' for 'warning'
CountSeverity_Typo(issues, severity) ==
    Len(SelectSeq(issues, LAMBDA i :
            i.severity = (IF severity = "warning" THEN "warn" ELSE severity)))

\* issues.filter((i) => i.severity === severity).length
CountSeverity(issues, severity) ==
    Len(SelectSeq(issues, LAMBDA i : i.severity = severity))

\* analyzeDNS with lines 308 and 309 exchanged
analyzeDNS_EmailFirst(dnsResults) ==
    LET issues ==
            checkNSMismatch(dnsResults)
              \o checkCNAMEAtApex(dnsResults)
              \o checkEmailSetup(dnsResults)
              \o checkMissingAAAA(dnsResults)
              \o checkSPFSyntax(dnsResults)
              \o checkTTL(dnsResults)
              \o checkDNSSEC(dnsResults)
    IN  [issues |-> issues,
         summary |-> [errors |-> CountSeverity(issues, "error"),
                      warnings |-> CountSeverity(issues, "warning"),
                      info |-> CountSeverity(issues, "info")]]

\* analyzeDNS, lines 299-325
analyzeDNS(dnsResults) ==
    LET issues ==
            checkNSMismatch(dnsResults)
              \o checkCNAMEAtApex(dnsResults)
              \o checkMissingAAAA(dnsResults)
              \o checkEmailSetup(dnsResults)
              \o checkSPFSyntax(dnsResults)
              \o checkTTL(dnsResults)
              \o checkDNSSEC(dnsResults)
    IN  [issues |-> issues,
         summary |-> [errors |-> CountSeverity(issues, "error"),
                      warnings |-> CountSeverity(issues, "warning"),
                      info |-> CountSeverity(issues, "info")]]

----------------------------------------------------------------------------
(* The resolvers, as the diagnostic run sees them *)

\* At most MaxLive record types hold records in the queried zone
MaxLive == 1

\* The order in which record types are taken to hold records
LiveOrder == <<"NS", "MX", "A", "TXT", "AAAA", "CNAME", "SOA", "CAA">>

LiveTypes ==
    {LiveOrder[i] : i \in {j \in DOMAIN LiveOrder : j <= MaxLive}}

OWNER == <<"e","x",".","c","o">>

\* The records of the zone for a type that holds records
ZoneRecords(t) ==
    CASE t = "NS"  -> << Rec(OWNER, 3600, <<"n","s","1">>),
                         Rec(OWNER, 3600, <<"N","S","2">>) >>
      [] t = "MX"  -> << Rec(OWNER, 60, <<"1","0"," ","m","x">>) >>
      [] t = "A"   -> << Rec(OWNER, 100000, <<"1",".","2">>) >>
      [] t = "TXT" -> << Rec(OWNER, 3600, STR_V_SPF1 \o <<" ","-","a","l","l">>) >>
      [] OTHER     -> << Rec(OWNER, 3600, <<"d">>) >>

\* Records a resolver other than the one first asked may still hold from
\* before the zone last changed
StaleRecords(t) ==
    CASE t = "NS"  -> << Rec(OWNER, 3600, <<"n","s","0">>) >>
      [] OTHER     -> << Rec(OWNER, 3600, <<"o","l","d">>) >>

FailedFetches == {Fetch(k, NULL) : k \in FetchKinds \ {"ok"}}

\* The ways a fetch of queryAllRecords for record type t can end: a failure,
\* a body without an Answer member, or a body with the zone's records
FetchResults(t) ==
    FailedFetches
      \cup {Fetch("ok", DNSResponse(FALSE, <<>>))}
      \cup (IF t \in LiveTypes
            THEN {Fetch("ok", DNSResponse(TRUE, ZoneRecords(t)))} ELSE {})

\* The ways a fetch of checkPropagation can end: those, or a body with
\* stale records
PropFetchResults(t) ==
    FetchResults(t)
      \cup (IF t \in LiveTypes
            THEN {Fetch("ok", DNSResponse(TRUE, StaleRecords(t)))} ELSE {})

----------------------------------------------------------------------------
(* dns.ts: queryAllRecords, checkPropagation, queryDNSWithPropagation.     *)
(* One action is one turn of the event loop: the arrival of a response     *)
(* and every continuation that becomes runnable with it.  (The two awaits  *)
(* of queryDNS, fetch and response.json(), are one step: nothing is        *)
(* written between them.)                                                  *)

EmptyMap == [x \in {} |-> TRUE]

NoReport == [none |-> TRUE]
NoCall == [none |-> TRUE]
NoStore == [none |-> TRUE]
NoAI == [none |-> TRUE]
NoRequest == [none |-> TRUE]

\* What a fetch got from the network: nothing usable, or a parsed body
NothingSent == [pending |-> TRUE]
Sent(fx) ==
    IF fx.kind = "ok" THEN [pending |-> FALSE, failed |-> FALSE, data |-> fx.data]
    ELSE [pending |-> FALSE, failed |-> TRUE, data |-> NULL]

\* Promise.race/any in place of Promise.all: settles with the first branch
PromiseAny(states) == \E k \in DOMAIN states : states[k] = "done"

\* Promise.all over branches whose states are given: fulfilled once every
\* branch is
PromiseAll(states) == \A k \in DOMAIN states : states[k] = "done"

\* Lines 93-108 with the branch of lines 93-101 left out: a failed query
\* is stored like an empty answer
ResolverResult_FailureAsEmpty(name, response) ==
    [resolver |-> name, records |-> AnswerOrEmpty(response), hasError |-> FALSE]

\* Lines 93-108 with the test of line 93 written `!response?.Answer`
ResolverResult_NoAnswerIsError(name, response) ==
    IF response.isNull \/ ~response.hasAnswer
    THEN [resolver |-> name, records |-> <<>>, hasError |-> TRUE,
          error |-> "Query failed"]
    ELSE [resolver |-> name, records |-> AnswerOrEmpty(response),
          hasError |-> FALSE]

\* The entry one branch of checkPropagation writes, lines 93-108
ResolverResult(name, response) ==
    IF response.isNull
    THEN [resolver |-> name, records |-> <<>>, hasError |-> TRUE,
          error |-> "Query failed"]
    ELSE [resolver |-> name, records |-> AnswerOrEmpty(response),
          hasError |-> FALSE]

\* The entry one branch of queryAllRecords writes, lines 63-69
DNSQueryResult(recordType, response) ==
    [recordType |-> recordType, primaryRecords |-> AnswerOrEmpty(response),
     propagation |-> EmptyMap]

\* Line 65 with recordType read from a variable the branches share, which
\* holds the last record type by the time a response arrives
StoreResult_SharedVariable(res, recordType, entry) ==
    [k \in DOMAIN res \cup {QUERY_RECORD_TYPES[Len(QUERY_RECORD_TYPES)]} |->
        IF k = QUERY_RECORD_TYPES[Len(QUERY_RECORD_TYPES)] THEN entry ELSE res[k]]

\* Line 65, results[recordType] = entry, with an entry that holds no
\* records left out
StoreResult_SkipEmpty(res, recordType, entry) ==
    IF Len(entry.primaryRecords) = 0 THEN res
    ELSE [k \in DOMAIN res \cup {recordType} |->
             IF k = recordType THEN entry ELSE res[k]]

\* Line 65: results[recordType] = entry
StoreResult(res, recordType, entry) ==
    [k \in DOMAIN res \cup {recordType} |->
        IF k = recordType THEN entry ELSE res[k]]

\* Line 128 with the length test dropped
NeedsPropagation_Always(queryResult) == TRUE

\* Line 128: the condition under which checkPropagation is called for a type
NeedsPropagation(queryResult) == Len(queryResult.primaryRecords) > 0

InitRun ==
    /\ phase = "start"
    /\ primary = [t \in QueryTypes |-> "idle"]
    /\ results = EmptyMap
    /\ keyOrder = <<>>
    /\ prop = [t \in QueryTypes |-> [u \in ResolverUrls |-> "idle"]]
    /\ propMap = [t \in QueryTypes |-> EmptyMap]
    /\ report = NoReport
    /\ call = NoCall
    /\ sent = [t \in QueryTypes |-> [u \in ResolverUrls |-> NothingSent]]
    /\ okSeen = FALSE
    /\ store = NoStore
    /\ ai = NoAI
    /\ req = NoRequest

\* queryDNSWithPropagation is called; queryAllRecords runs up to line 72:
\* the map of line 61 starts the eight branches, each up to its fetch
StartQueryAllRecords ==
    /\ phase = "start"
    /\ phase' = "aggregate"
    /\ primary' = [t \in QueryTypes |-> "inflight"]
    /\ UNCHANGED <<results, keyOrder, prop, propMap, report, call, sent, okSeen, store, ai, req>>

\* The primary resolver's fetch for type t ends with fx: queryDNS returns
\* (or throws), and the branch of lines 62-69 stores its entry
PrimaryResponse(t, fx) ==
    /\ phase = "aggregate"
    /\ primary[t] = "inflight"
    /\ LET q == queryDNS(t, RESOLVERS.CLOUDFLARE, fx)
       IN  IF q.threw
           THEN /\ phase' = "rejected"
                /\ primary' = [primary EXCEPT ![t] = "rejected"]
                /\ UNCHANGED <<results, keyOrder>>
           ELSE LET entry == DNSQueryResult(t, q.value)
                IN  /\ results' = StoreResult(results, t, entry)
                    /\ keyOrder' = IF Len(entry.primaryRecords) > 0
                                   THEN Append(keyOrder, t) ELSE keyOrder
                    /\ primary' = [primary EXCEPT ![t] = "done"]
                    /\ phase' = phase
    /\ okSeen' = (okSeen \/ fx.kind = "ok")
    /\ UNCHANGED <<prop, propMap, report, call, sent, store, ai, req>>

\* Lines 126-131: the branches of checkPropagation that the map starts, one
\* set of three for each type of res that NeedsPropagation
StartChecks(res) ==
    [t \in QueryTypes |->
        IF t \in DOMAIN res /\ NeedsPropagation(res[t])
        THEN [u \in ResolverUrls |-> "inflight"]
        ELSE [u \in ResolverUrls |-> "idle"]]

\* queryDNSWithPropagation restructured to start the propagation checks of
\* every type alongside the primary queries, without awaiting line 123
ReturnAllRecords_Eager ==
    /\ phase = "aggregate"
    /\ phase' = "propagate"
    /\ prop' = [t \in QueryTypes |-> [u \in ResolverUrls |-> "inflight"]]
    /\ UNCHANGED <<primary, results, keyOrder, propMap, report, call, sent, okSeen, store, ai, req>>

\* Lines 72-74 and 123-132: Promise.all(queries) is fulfilled, queryAllRecords
\* returns results, and the map of line 126 starts checkPropagation, up to
\* its fetches, for each type that NeedsPropagation
ReturnAllRecords ==
    /\ phase = "aggregate"
    /\ PromiseAll(primary)
    /\ phase' = "propagate"
    /\ prop' = StartChecks(results)
    /\ UNCHANGED <<primary, results, keyOrder, propMap, report, call, sent, okSeen, store, ai, req>>

\* Resolver u's fetch for type t ends with fx: the branch of lines 91-108
\* stores its entry in checkPropagation's local object; when that fulfils
\* the Promise.all of line 111, checkPropagation returns and line 130
\* assigns the object to the type's propagation
PropResponse(t, u, fx) ==
    /\ phase = "propagate"
    /\ prop[t][u] = "inflight"
    /\ LET q == queryDNS(t, u, fx)
       IN  IF q.threw
           THEN /\ phase' = "rejected"
                /\ prop' = [prop EXCEPT ![t][u] = "rejected"]
                /\ UNCHANGED <<results, propMap>>
           ELSE LET entry == ResolverResult(ResolverName(u), q.value)
                    map == [k \in DOMAIN propMap[t] \cup {u} |->
                               IF k = u THEN entry ELSE propMap[t][k]]
                    branches == [prop[t] EXCEPT ![u] = "done"]
                IN  /\ propMap' = [propMap EXCEPT ![t] = map]
                    /\ prop' = [prop EXCEPT ![t] = branches]
                    /\ results' = IF PromiseAll(branches)
                                  THEN [results EXCEPT ![t].propagation = map]
                                  ELSE results
                    /\ phase' = phase
    /\ sent' = [sent EXCEPT ![t][u] = Sent(fx)]
    /\ okSeen' = (okSeen \/ fx.kind = "ok")
    /\ UNCHANGED <<primary, keyOrder, report, call, store, ai, req>>

\* The state of the branch of lines 126-132 for type t
CheckBranch(t) ==
    IF t \notin DOMAIN results THEN "done"
    ELSE IF ~(\E u \in ResolverUrls : prop[t][u] # "idle") THEN "done"
    ELSE IF DOMAIN results[t].propagation # {} THEN "done"
    ELSE "inflight"

\* Lines 134-136: Promise.all(propagationChecks) is fulfilled and
\* queryDNSWithPropagation returns results
ReturnWithPropagation ==
    /\ phase = "propagate"
    /\ PromiseAll([t \in QueryTypes |-> CheckBranch(t)])
    /\ phase' = "analyze"
    /\ UNCHANGED <<primary, results, keyOrder, prop, propMap, report, call, sent, okSeen, store, ai, req>>

\* analyzeDNS(dnsResults, domain) runs on the returned results
Analyze ==
    /\ phase = "analyze"
    /\ report' = analyzeDNS([byType |-> results, keys |-> keyOrder])
    /\ phase' = "reported"
    /\ UNCHANGED <<primary, results, keyOrder, prop, propMap, call, sent, okSeen, store, ai, req>>

Next ==
    \/ StartQueryAllRecords
    \/ \E t \in QueryTypes : \E fx \in FetchResults(t) : PrimaryResponse(t, fx)
    \/ ReturnAllRecords
    \/ \E t \in QueryTypes : \E u \in ResolverUrls :
           \E fx \in PropFetchResults(t) : PropResponse(t, u, fx)
    \/ ReturnWithPropagation
    \/ Analyze

Spec == InitRun /\ [][Next]_vars

\* The event loop runs a continuation that is ready; no response is owed
FairSpec ==
    /\ InitRun /\ [][Next]_vars
    /\ WF_vars(StartQueryAllRecords)
    /\ WF_vars(ReturnAllRecords)
    /\ WF_vars(ReturnWithPropagation)
    /\ WF_vars(Analyze)

\* Every fetch that was started ends as well: a run is a finite sequence of
\* continuations and responses, so it suffices that some step that can be
\* taken is taken
LiveSpec == InitRun /\ [][Next]_vars /\ WF_vars(Next)

----------------------------------------------------------------------------
(* queryDNS alone: one call with any record type, resolver and fetch result *)

\* Record types a caller may pass: the keys of DNS_RECORD_TYPES and two
\* names that are not keys
CallRecordTypes == DOMAIN DNS_RECORD_TYPES \cup {"PTR", ""}

CallFetches ==
    FailedFetches
      \cup {Fetch("ok", DNSResponse(FALSE, <<>>)),
            Fetch("ok", DNSResponse(TRUE, <<>>)),
            Fetch("ok", DNSResponse(TRUE, ZoneRecords("A")))}

NoResult == [none |-> TRUE]

InitCall ==
    /\ phase = "call"
    /\ call \in {[recordType |-> t, resolver |-> u, fx |-> fx,
                  done |-> FALSE, result |-> NoResult] :
                     t \in CallRecordTypes, u \in ResolverUrls, fx \in CallFetches}
    /\ primary = [t \in QueryTypes |-> "idle"]
    /\ results = EmptyMap
    /\ keyOrder = <<>>
    /\ prop = [t \in QueryTypes |-> [u \in ResolverUrls |-> "idle"]]
    /\ propMap = [t \in QueryTypes |-> EmptyMap]
    /\ report = NoReport
    /\ sent = [t \in QueryTypes |-> [u \in ResolverUrls |-> NothingSent]]
    /\ okSeen = FALSE
    /\ store = NoStore
    /\ ai = NoAI
    /\ req = NoRequest

\* The call runs to its end
CallQueryDNS ==
    /\ phase = "call"
    /\ ~call.done
    /\ call' = [call EXCEPT !.done = TRUE,
                            !.result = queryDNS(call.recordType, call.resolver, call.fx)]
    /\ UNCHANGED <<phase, primary, results, keyOrder, prop, propMap, report, sent, okSeen, store, ai, req>>

NextCall == CallQueryDNS

SpecQuery == InitCall /\ [][NextCall]_vars

----------------------------------------------------------------------------
(* analyzeDNS alone: one call on any result set of the bounded family below *)

\* TXT lists hold at most MaxTxt records
MaxTxt == 2

TXT_SPF_OK == STR_V_SPF1 \o <<" ","m","x"," ","-","a","l","l">>
TXT_SPF_BAD == STR_V_SPF1 \o <<" ","b","a","d">>
TXT_SPF_BAD2 == STR_V_SPF1 \o <<" ","b","a","d"," ","-","x">>
TXT_SPF_UPPER == <<"V","=","S","P","F","1"," ","a">>
TXT_DMARC == <<"v","=","D","M","A","R","C","1">>
TXT_OTHER == <<"h","i">>

TxtPayloads ==
    <<TXT_SPF_OK, TXT_SPF_BAD2, TXT_SPF_BAD, TXT_SPF_UPPER, TXT_DMARC, TXT_OTHER>>

\* The lists of at most n positions of S, positions not decreasing: one
\* list for each collection of at most n elements of S.  (The rules read a
\* TXT list with some(), filter() and for-of: the order of the list decides
\* only the order of the issues of one rule.)
RECURSIVE SeqsUpTo(_, _)
SeqsUpTo(S, n) ==
    IF n = 0 THEN {<<>>}
    ELSE LET shorter == SeqsUpTo(S, n - 1)
             longest == {q \in shorter : Len(q) = n - 1}
         IN  shorter \cup
               UNION {{Append(q, k) :
                          k \in {j \in DOMAIN S : q = <<>> \/ q[Len(q)] <= j}} :
                      q \in longest}

NS_1 == Rec(OWNER, 3600, <<"n","s","1">>)
NS_2 == Rec(OWNER, 3600, <<"N","S","2">>)
NS_2_LOWER == Rec(OWNER, 3600, <<"n","s","2">>)
NS_0 == Rec(OWNER, 3600, <<"n","s","0">>)

\* The primaryRecords lists drawn for each record type
PrimaryChoices(t) ==
    CASE t = "A"     -> {<<>>, << Rec(OWNER, 299, <<"1",".","2">>),
                                  Rec(OWNER, 86401, <<"1",".","3">>) >>,
                               << Rec(OWNER, 300, <<"1",".","2">>) >>}
      [] t = "AAAA"  -> {<<>>, << Rec(OWNER, 86400, <<":",":","1">>) >>}
      [] t = "CNAME" -> {<<>>, << Rec(<<"w",".">> \o OWNER, 3600, <<"t">>) >>,
                               << Rec(<<"w",".">> \o OWNER, 3600, <<"t">>),
                                  Rec(OWNER \o STR_DOT, 3600, <<"t">>) >>,
                               << Rec(OWNER \o STR_DOT, 3600, <<"t">>),
                                  Rec(STR_AT, 3600, <<"t">>) >>}
      [] t = "MX"    -> {<<>>, << Rec(OWNER, 3600, <<"1","0"," ","m","x">>) >>}
      [] t = "NS"    -> {<<>>, <<NS_1, NS_2>>}
      [] t = "TXT"   -> {[i \in DOMAIN q |-> Rec(OWNER, 3600, TxtPayloads[q[i]])] :
                            q \in SeqsUpTo(TxtPayloads, MaxTxt)}
      [] OTHER       -> {<<>>}

\* The propagation of a type whose three resolvers answered okRecords, but
\* for resolver `odd`, which answered oddRecords or, with failed, not at all
PropagationOf(okRecords, odd, oddRecords, failed) ==
    [u \in ResolverUrls |->
        IF u = odd
        THEN IF failed THEN ResolverResult(ResolverName(u), NULL)
             ELSE ResolverResult(ResolverName(u), DNSResponse(TRUE, oddRecords))
        ELSE ResolverResult(ResolverName(u), DNSResponse(TRUE, okRecords))]

\* The propagation mappings drawn for a type with the given primaryRecords:
\* none for an empty list; for NS, resolvers that agree (in any order and
\* letter case), one with stale records, one with no records, one that
\* failed, two with stale records
PropagationChoices(t, records) ==
    IF records = <<>> THEN {EmptyMap}
    ELSE IF t = "NS"
    THEN {PropagationOf(records, RESOLVERS.GOOGLE, oddRecords, FALSE) :
              oddRecords \in {records, <<NS_2_LOWER, NS_1, NS_1>>, <<NS_0>>, <<>>}}
           \cup {PropagationOf(records, RESOLVERS.QUAD9, <<>>, TRUE)}
           \cup {PropagationOf(<<NS_0>>, RESOLVERS.CLOUDFLARE, records, FALSE)}
    ELSE {PropagationOf(records, RESOLVERS.GOOGLE, records, FALSE)}

\* The orders in which the keys that hold records were inserted
KeyOrders(byType) ==
    LET held == SelectSeq(QUERY_RECORD_TYPES,
                          LAMBDA t : Len(byType[t].primaryRecords) > 0)
    IN  {held, [i \in DOMAIN held |-> held[Len(held) + 1 - i]]}

\* The result set with the given primaryRecords per type and NS propagation
ResultSetOf(recs, nsProp) ==
    [t \in QueryTypes |->
        [recordType |-> t, primaryRecords |-> recs[t],
         propagation |->
            IF t = "NS" THEN nsProp
            ELSE CHOOSE m \in PropagationChoices(t, recs[t]) : TRUE]]

InitAnalyze ==
    /\ phase = "analyze"
    /\ \E a \in PrimaryChoices("A"), aaaa \in PrimaryChoices("AAAA"),
          cname \in PrimaryChoices("CNAME"), mx \in PrimaryChoices("MX"),
          ns \in PrimaryChoices("NS"), txt \in PrimaryChoices("TXT"),
          soa \in PrimaryChoices("SOA"), caa \in PrimaryChoices("CAA") :
          \E nsProp \in PropagationChoices("NS", ns) :
              results = ResultSetOf(
                  [A |-> a, AAAA |-> aaaa, CNAME |-> cname, MX |-> mx,
                   NS |-> ns, TXT |-> txt, SOA |-> soa, CAA |-> caa], nsProp)
    /\ keyOrder \in KeyOrders(results)
    /\ primary = [t \in QueryTypes |-> "done"]
    /\ prop = [t \in QueryTypes |->
                  [u \in ResolverUrls |->
                      IF results[t].primaryRecords = <<>> THEN "idle" ELSE "done"]]
    /\ propMap = [t \in QueryTypes |-> results[t].propagation]
    /\ report = NoReport
    /\ call = NoCall
    /\ sent = [t \in QueryTypes |-> [u \in ResolverUrls |->
                  IF results[t].primaryRecords = <<>> THEN NothingSent
                  ELSE LET e == results[t].propagation[u]
                       IN  IF e.hasError THEN Sent(Fetch("network_error", NULL))
                           ELSE Sent(Fetch("ok", DNSResponse(TRUE, e.records)))]]
    /\ okSeen = (\E t \in QueryTypes : results[t].primaryRecords # <<>>)
    /\ store = NoStore
    /\ ai = NoAI
    /\ req = NoRequest

NextAnalyze == Analyze

SpecAnalyze == InitAnalyze /\ [][NextAnalyze]_vars

----------------------------------------------------------------------------
(* durable.ts: DomainHistory.  A store request runs from storage.get to     *)
(* storage.put without another request of the object in between: while a   *)
(* storage operation is awaited the object's input gate delivers no other  *)
(* event, and the only other await, request.json(), comes before the get.  *)
(* An entry is its domain and its timestamp: handleStore tests that         *)
(* rawDiagnostics and aiExplanation are there and reads no more of them.    *)

\* The literal of line 92: the most entries a domain's history keeps
HISTORY_LIMIT == 50

\* The timestamps of entries and the values of Date.now(): an older and a
\* newer one.  A store request may carry none (0 stands for an absent or
\* zero timestamp, both falsy at line 80)
Timestamps == {1, 2}

Newest == CHOOSE ts \in Timestamps : \A other \in Timestamps : other <= ts

Oldest == CHOOSE ts \in Timestamps : \A other \in Timestamps : ts <= other

\* At most MaxStores store requests are accepted for the domain whose
\* history overflows, at most MaxOtherStores for the other one
MaxStores == 52

MaxOtherStores == 1

StoreDomains == {"ex.co", "w.ex.co"}

StoreBudget(domain) == IF domain = "ex.co" THEN MaxStores ELSE MaxOtherStores

\* The bodies of POST /store requests: domain "" stands for a missing
\* domain.  A body that lacks a required field is taken without timestamp:
\* handleStore returns at line 68 before it reads the timestamp
StoreRequests ==
    { body \in [domain : StoreDomains \cup {""}, rawDiagnostics : BOOLEAN,
                aiExplanation : BOOLEAN, timestamp : {0} \cup Timestamps] :
        (body.domain = "" \/ ~body.rawDiagnostics \/ ~body.aiExplanation)
            => body.timestamp = 0 }

DomainHistoryEntry(domain, timestamp) == [domain |-> domain, timestamp |-> timestamp]

\* state.storage.get(historyKey) || []
storageGet(storage, historyKey) ==
    IF historyKey \in DOMAIN storage THEN storage[historyKey] ELSE <<>>

\* state.storage.put(historyKey, value)
storagePut(storage, historyKey, value) ==
    [k \in DOMAIN storage \cup {historyKey} |->
        IF k = historyKey THEN value ELSE storage[k]]

\* Lines 92-94: if (existingHistory.length > 50) existingHistory.shift()
trimHistory(existingHistory) ==
    IF Len(existingHistory) > HISTORY_LIMIT THEN Tail(existingHistory)
    ELSE existingHistory

\* Array.prototype.sort with the comparator (a, b) => a.timestamp - b.timestamp
RECURSIVE sortOldestFirst(_)
sortOldestFirst(list) ==
    IF \A i \in 1..(Len(list) - 1) : list[i].timestamp <= list[i + 1].timestamp
    THEN list
    ELSE LET x == list[Len(list)]
             sorted == sortOldestFirst(SubSeq(list, 1, Len(list) - 1))
             before == SelectSeq(sorted, LAMBDA e : e.timestamp <= x.timestamp)
             after == SelectSeq(sorted, LAMBDA e : e.timestamp > x.timestamp)
         IN  before \o <<x>> \o after

\* Line 97, Array.prototype.sort with (a, b) => b.timestamp - a.timestamp:
\* most recent first, entries of equal timestamp in the order they had (the
\* sort is stable, so a list already in order is returned as it is,
\* otherwise the last entry is inserted into the sorted rest)
RECURSIVE sortNewestFirst(_)
sortNewestFirst(list) ==
    IF \A i \in 1..(Len(list) - 1) : list[i].timestamp >= list[i + 1].timestamp
    THEN list
    ELSE LET x == list[Len(list)]
             sorted == sortNewestFirst(SubSeq(list, 1, Len(list) - 1))
             before == SelectSeq(sorted, LAMBDA e : e.timestamp >= x.timestamp)
             after == SelectSeq(sorted, LAMBDA e : e.timestamp < x.timestamp)
         IN  before \o <<x>> \o after

\* Line 67: a required field is missing
missingFields(data) ==
    data.domain = "" \/ ~data.rawDiagnostics \/ ~data.aiExplanation

\* Lines 84-100: the history stored for data.domain after data is stored
storedHistory(storage, data) ==
    LET existingHistory == storageGet(storage, data.domain)
        pushed == Append(existingHistory,
                         DomainHistoryEntry(data.domain, data.timestamp))
    IN  sortNewestFirst(trimHistory(pushed))

\* store.accepted[d][ts]: how many entries of domain d with timestamp ts
\* were ever stored
NothingAccepted == [d \in StoreDomains |-> [ts \in Timestamps |-> 0]]

\* How many entries of `domain` were ever stored
RECURSIVE AcceptedUpTo(_, _, _)
AcceptedUpTo(accepted, domain, ts) ==
    IF ts = 0 THEN 0
    ELSE accepted[domain][ts] + AcceptedUpTo(accepted, domain, ts - 1)

AcceptedCount(accepted, domain) == AcceptedUpTo(accepted, domain, Newest)

InitStore ==
    /\ phase = "store"
    /\ store = [storage |-> EmptyMap, status |-> 0, accepted |-> NothingAccepted,
                request |-> NoRequest]
    /\ primary = [t \in QueryTypes |-> "idle"]
    /\ results = EmptyMap
    /\ keyOrder = <<>>
    /\ prop = [t \in QueryTypes |-> [u \in ResolverUrls |-> "idle"]]
    /\ propMap = [t \in QueryTypes |-> EmptyMap]
    /\ report = NoReport
    /\ call = NoCall
    /\ sent = [t \in QueryTypes |-> [u \in ResolverUrls |-> NothingSent]]
    /\ okSeen = FALSE
    /\ ai = NoAI
    /\ req = NoRequest

\* What store.request keeps of the body of the last request: the fields
\* line 67 tests
RequiredFields(body) ==
    [domain |-> body.domain, rawDiagnostics |-> body.rawDiagnostics,
     aiExplanation |-> body.aiExplanation]

\* handleStore, lines 63-111, for a request with body `body`, Date.now()
\* returning `now`
handleStore(body, now) ==
    /\ phase = "store"
    /\ body.domain # "" =>
          AcceptedCount(store.accepted, body.domain) < StoreBudget(body.domain)
    /\ IF missingFields(body)
       THEN store' = [store EXCEPT !.status = 400,
                                   !.request = RequiredFields(body)]
       ELSE LET data == [body EXCEPT !.timestamp =
                            IF body.timestamp = 0 THEN now ELSE body.timestamp]
            IN  store' = [storage |-> storagePut(store.storage, data.domain,
                                                 storedHistory(store.storage, data)),
                          status |-> 200,
                          request |-> RequiredFields(body),
                          accepted |-> [store.accepted EXCEPT
                                          ![data.domain][data.timestamp] = @ + 1]]
    /\ UNCHANGED <<phase, primary, results, keyOrder, prop, propMap, report, call,
                   sent, okSeen, ai, req>>

\* Date.now() is read (line 81) only for an accepted body without timestamp
ClockReadings(body) ==
    IF ~missingFields(body) /\ body.timestamp = 0 THEN Timestamps ELSE {Oldest}

NextStore ==
    \E body \in StoreRequests : \E now \in ClockReadings(body) :
        handleStore(body, now)

SpecStore == InitStore /\ [][NextStore]_vars

----------------------------------------------------------------------------
(* part_004: analyzeWithAI.  The explanation an AI provider writes is not   *)
(* the program's to decide: each provider has one sample answer, and what   *)
(* varies is how the call ends.                                             *)

\* The issue lists handed to analyzeWithAI hold at most MaxIssues issues
MaxIssues == 3

\* An issue as the fallback reads it (diagnose.ts lines 212-215, 130-133,
\* 282-284): type, severity and message
IssueSamples ==
    << [type |-> "spf_syntax_error", severity |-> "error",
        message |-> "SPF record has syntax errors"],
       [type |-> "missing_aaaa", severity |-> "warning",
        message |-> "Domain has A records but no AAAA records - not IPv6 ready"],
       [type |-> "dnssec_check", severity |-> "info",
        message |-> "DNSSEC status check requires explicit RRSIG query - not fully implemented"] >>

IssueLists ==
    UNION { { [i \in 1..n |-> IssueSamples[f[i]]] :
                f \in [1..n -> DOMAIN IssueSamples] } : n \in 0..MaxIssues }

\* Lines 274-279 and 293-298
fallbackSeverity(severity) ==
    IF severity = "error" THEN 8 ELSE IF severity = "warning" THEN 5 ELSE 3

\* Lines 269-284 and 288-303: the explanation built from the rule-based
\* issues; a template literal is the tuple of its parts
fallbackExplanation(issues) ==
    [summary |-> "AI analysis unavailable. Please review the diagnostic results below.",
     issues |-> [i \in DOMAIN issues |->
        [issue |-> issues[i].message,
         severity |-> fallbackSeverity(issues[i].severity),
         explanation |-> <<"This is a ", issues[i].severity, " level issue: ",
                           issues[i].message>>,
         steps |-> << <<"Review the ", issues[i].type,
                        " issue and consult DNS documentation">> >>]]]

\* How env.AI.run can end: with a response whose text holds a JSON object,
\* text without braces, braces that do not parse, a response field that is
\* no string, an object without response field, null, or a rejection
WorkersAIOutcomes ==
    {"json", "text", "unparsable", "nonstring", "object", "null", "rejected"}

WORKERS_ANSWER ==
    [summary |-> "workers-ai", issues |-> << [issue |-> "w", severity |-> 7,
                                             explanation |-> "w", steps |-> <<"w">>] >>]

\* analyzeWithWorkersAI, lines 60-141: what it returns, or that it threw
analyzeWithWorkersAI(outcome) ==
    CASE outcome = "json" ->
            \* line 108: JSON.parse(jsonMatch[0])
            [threw |-> FALSE, value |-> WORKERS_ANSWER]
      [] outcome = "text" ->
            \* lines 111-121
            [threw |-> FALSE,
             value |-> [summary |-> "plain text",
                        issues |-> << [issue |-> "AI Analysis", severity |-> 5,
                                       explanation |-> "plain text",
                                       steps |-> <<"Review the explanation above">>] >>]]
      [] outcome \in {"unparsable", "nonstring"} ->
            \* lines 123-136: JSON.parse or responseText.match threw
            [threw |-> FALSE,
             value |-> [summary |-> "AI analysis completed",
                        issues |-> << [issue |-> "DNS Configuration Review",
                                       severity |-> 5, explanation |-> outcome,
                                       steps |-> <<"Review the diagnostic results">>] >>]]
      [] outcome = "object" ->
            \* line 101: JSON.stringify(response), which parses back
            [threw |-> FALSE, value |-> [raw |-> "response"]]
      [] OTHER ->
            \* lines 139-142: the rejection, or the TypeError of line 101
            [threw |-> TRUE, value |-> NULL]

\* How the fetch of api.openai.com can end
OpenAIOutcomes ==
    {"ok", "empty", "nochoices", "unparsable", "httperror", "bodyerror", "network"}

OPENAI_ANSWER ==
    [summary |-> "openai", issues |-> << [issue |-> "o", severity |-> 6,
                                         explanation |-> "o", steps |-> <<"o">>] >>]

\* analyzeWithOpenAI, lines 149-211
analyzeWithOpenAI(keyConfigured, outcome) ==
    IF ~keyConfigured THEN [threw |-> TRUE, value |-> NULL]
    ELSE CASE outcome = "ok" -> [threw |-> FALSE, value |-> OPENAI_ANSWER]
           [] outcome = "empty" ->
                 \* line 202: content missing, "{}" is parsed
                 [threw |-> FALSE, value |-> [raw |-> "{}"]]
           [] OTHER -> [threw |-> TRUE, value |-> NULL]

\* analyzeWithAI with the OpenAI call outside a try block
afterOpenAI_NoCatch(attempt, issues) ==
    IF attempt.threw THEN [pc |-> "raised", result |-> NULL]
    ELSE [pc |-> "returned", result |-> attempt.value]

\* Lines 262-285: return the OpenAI explanation, or the fallback when the
\* call threw
afterOpenAI(attempt, issues) ==
    IF attempt.threw THEN [pc |-> "returned", result |-> fallbackExplanation(issues)]
    ELSE [pc |-> "returned", result |-> attempt.value]

InitAI ==
    /\ phase = "ai"
    /\ \E issues \in IssueLists : \E keyConfigured \in BOOLEAN :
          ai = [pc |-> "start", issues |-> issues, keyConfigured |-> keyConfigured,
                calls |-> <<>>, outcomes |-> <<>>, result |-> NULL]
    /\ primary = [t \in QueryTypes |-> "idle"]
    /\ results = EmptyMap
    /\ keyOrder = <<>>
    /\ prop = [t \in QueryTypes |-> [u \in ResolverUrls |-> "idle"]]
    /\ propMap = [t \in QueryTypes |-> EmptyMap]
    /\ report = NoReport
    /\ call = NoCall
    /\ sent = [t \in QueryTypes |-> [u \in ResolverUrls |-> NothingSent]]
    /\ okSeen = FALSE
    /\ store = NoStore
    /\ req = NoRequest

\* Lines 221-258: analyzeWithAI builds diagnosticJSON and calls env.AI.run
CallAnalyzeWithAI ==
    /\ phase = "ai"
    /\ ai.pc = "start"
    /\ ai' = [ai EXCEPT !.pc = "workers", !.calls = Append(@, "workers")]
    /\ UNCHANGED <<phase, primary, results, keyOrder, prop, propMap, report, call,
                   sent, okSeen, store, req>>

\* env.AI.run settles: lines 100-142, then lines 256-303 up to the return
\* or to the fetch of analyzeWithOpenAI
WorkersAIResponse(outcome) ==
    /\ phase = "ai"
    /\ ai.pc = "workers"
    /\ LET attempt == analyzeWithWorkersAI(outcome)
           seen == Append(ai.outcomes, outcome)
       IN  IF ~attempt.threw
           THEN ai' = [ai EXCEPT !.pc = "returned", !.outcomes = seen,
                                 !.result = attempt.value]
           ELSE IF ai.keyConfigured
           THEN ai' = [ai EXCEPT !.pc = "openai", !.outcomes = seen,
                                 !.calls = Append(@, "openai")]
           ELSE ai' = [ai EXCEPT !.pc = "returned", !.outcomes = seen,
                                 !.result = fallbackExplanation(ai.issues)]
    /\ UNCHANGED <<phase, primary, results, keyOrder, prop, propMap, report, call,
                   sent, okSeen, store, req>>

\* The fetch of analyzeWithOpenAI settles: lines 194-210, then 264-285
OpenAIResponse(outcome) ==
    /\ phase = "ai"
    /\ ai.pc = "openai"
    /\ LET after == afterOpenAI(analyzeWithOpenAI(ai.keyConfigured, outcome),
                                ai.issues)
       IN  ai' = [ai EXCEPT !.pc = after.pc, !.result = after.result,
                            !.outcomes = Append(@, outcome)]
    /\ UNCHANGED <<phase, primary, results, keyOrder, prop, propMap, report, call,
                   sent, okSeen, store, req>>

NextAI ==
    \/ CallAnalyzeWithAI
    \/ \E outcome \in WorkersAIOutcomes : WorkersAIResponse(outcome)
    \/ \E outcome \in OpenAIOutcomes : OpenAIResponse(outcome)

SpecAI == InitAI /\ [][NextAI]_vars

----------------------------------------------------------------------------
(* part_003: validateDomain and handleDNSDiagnostic, GET /api/dns *)

DigitChars == {"0", "1", "2", "3", "4", "5", "6", "7", "8", "9"}

LetterChars ==
    {LowerChars[i] : i \in DOMAIN LowerChars} \cup {UpperChars[i] : i \in DOMAIN UpperChars}

\* What String.prototype.trim removes, as far as the requests here hold it
WhitespaceChars == {" ", "\t"}

\* String.prototype.trim
trim(s) ==
    LET kept == {i \in 1..Len(s) : s[i] \notin WhitespaceChars}
    IN  IF kept = {} THEN <<>>
        ELSE SubSeq(s, CHOOSE i \in kept : \A j \in kept : i <= j,
                       CHOOSE i \in kept : \A j \in kept : j <= i)

\* replace(/\.$/, ''): one dot at the very end is removed
stripTrailingDot(s) ==
    IF Len(s) > 0 /\ s[Len(s)] = STR_DOT[1] THEN SubSeq(s, 1, Len(s) - 1) ELSE s

\* The pieces of s between its dots
dotParts(s) ==
    LET dots == {i \in 1..Len(s) : s[i] = STR_DOT[1]}
        n == Cardinality(dots)
        dotAt(k) == CHOOSE i \in dots : Cardinality({j \in dots : j < i}) = k - 1
        first(k) == IF k = 1 THEN 1 ELSE dotAt(k - 1) + 1
        last(k) == IF k = n + 1 THEN Len(s) ELSE dotAt(k) - 1
    IN  [k \in 1..(n + 1) |-> SubSeq(s, first(k), last(k))]

\* [a-z0-9]([a-z0-9-]{0,61}[a-z0-9])? under the flag i: 1 to 63 characters,
\* letters, digits and hyphens, no hyphen first or last
labelMatches(label) ==
    /\ Len(label) >= 1
    /\ Len(label) <= 63
    /\ label[1] \in LetterChars \cup DigitChars
    /\ label[Len(label)] \in LetterChars \cup DigitChars
    /\ \A i \in 1..Len(label) : label[i] \in LetterChars \cup DigitChars \cup {"-"}

\* [a-z]{2,} under the flag i
tldMatches(tld) ==
    /\ Len(tld) >= 2
    /\ \A i \in 1..Len(tld) : tld[i] \in LetterChars

\* DOMAIN_REGEX.test(s), part_004 line 43:
\* /^([a-z0-9]([a-z0-9-]{0,61}[a-z0-9])?\.)+[a-z]{2,}$/i.  Neither a label
\* nor the last part can hold a dot, so s matches in one way only: one or
\* more labels, each followed by a dot, then the letters of the last part
testDomainRegex(s) ==
    LET parts == dotParts(s)
    IN  /\ Len(parts) >= 2
        /\ \A k \in 1..(Len(parts) - 1) : labelMatches(parts[k])
        /\ tldMatches(parts[Len(parts)])

\* url.searchParams.get('domain'): a string, or null without the parameter
QueryParam(value) == [isNull |-> FALSE, value |-> value]

NoQueryParam == [isNull |-> TRUE, value |-> <<>>]

\* !domain: null or the empty string
falsy(domain) == domain.isNull \/ domain.value = <<>>

\* validateDomain, part_003 lines 41-48 (a query parameter is a string or
\* null, so typeof adds nothing to !domain)
validateDomain(domain) ==
    IF falsy(domain) THEN FALSE
    ELSE testDomainRegex(stripTrailingDot(trim(domain.value)))

\* The domains of the requests: labels, last parts, and what surrounds them
RepeatChar(c, n) == [i \in 1..n |-> c]

LabelSamples ==
    { <<"x">>, <<"e","x">>, <<"E","x","9">>, <<"e","-","x">>, <<"-","x">>,
      <<"x","-">>, <<"e","_","x">>, <<"w",".","e","x">>, <<>>,
      RepeatChar("a", 63), RepeatChar("a", 64) }

TldSamples == { <<"c","o">>, <<"C","o","m">>, <<"c">>, <<"c","0">>, <<>> }

PrefixSamples == { <<>>, <<" ">> }

SuffixSamples == { <<>>, <<".">>, <<".",".">>, <<" ">>, <<"."," ">>, <<" ",".">> }

RequestDomains ==
    {NoQueryParam, QueryParam(<<>>), QueryParam(<<"e","x">>)}
        \cup { QueryParam(p \o l \o STR_DOT \o t \o x) :
                 p \in PrefixSamples, l \in LabelSamples, t \in TldSamples,
                 x \in SuffixSamples }

\* handleDNSDiagnostic with validateDomain called after the queries are sent
gate_QueryFirst(domain) ==
    IF falsy(domain) THEN [status |-> 400, queried |-> FALSE]
    ELSE IF ~validateDomain(domain) THEN [status |-> 400, queried |-> TRUE]
    ELSE [status |-> 0, queried |-> TRUE]

\* Lines 56-86: the two tests before the try block; status 0 when the
\* request goes on to queryDNSWithPropagation
gate(domain) ==
    IF falsy(domain) THEN [status |-> 400, queried |-> FALSE]
    ELSE IF ~validateDomain(domain) THEN [status |-> 400, queried |-> FALSE]
    ELSE [status |-> 0, queried |-> TRUE]

InitRequest ==
    /\ phase = "request"
    /\ \E domain \in RequestDomains :
          req = [pc |-> "received", domain |-> domain, status |-> 0,
                 queried |-> FALSE, aiCalled |-> FALSE, storeSent |-> FALSE,
                 storeSettled |-> FALSE]
    /\ primary = [t \in QueryTypes |-> "idle"]
    /\ results = EmptyMap
    /\ keyOrder = <<>>
    /\ prop = [t \in QueryTypes |-> [u \in ResolverUrls |-> "idle"]]
    /\ propMap = [t \in QueryTypes |-> EmptyMap]
    /\ report = NoReport
    /\ call = NoCall
    /\ sent = [t \in QueryTypes |-> [u \in ResolverUrls |-> NothingSent]]
    /\ okSeen = FALSE
    /\ store = NoStore
    /\ ai = NoAI

\* Lines 54-86: the request is answered 400, or queryDNSWithPropagation is
\* called and sends the primary queries
HandleDNSDiagnostic ==
    /\ phase = "request"
    /\ req.pc = "received"
    /\ LET g == gate(req.domain)
       IN  req' = [req EXCEPT !.status = g.status, !.queried = g.queried,
                              !.pc = IF g.status = 0 THEN "querying" ELSE "responded"]
    /\ UNCHANGED <<phase, primary, results, keyOrder, prop, propMap, report, call,
                   sent, okSeen, store, ai>>

\* Lines 86-92: the results are there, analyzeDNS runs and analyzeWithAI is
\* called; when a statement of the try block throws, lines 135-149 answer 500
DNSResultsReturned(threw) ==
    /\ phase = "request"
    /\ req.pc = "querying"
    /\ IF threw
       THEN req' = [req EXCEPT !.pc = "responded", !.status = 500]
       ELSE req' = [req EXCEPT !.pc = "explaining", !.aiCalled = TRUE]
    /\ UNCHANGED <<phase, primary, results, keyOrder, prop, propMap, report, call,
                   sent, okSeen, store, ai>>

\* Lines 92-134: the explanation is there, the store request is sent to the
\* Durable Object without being awaited, and the response is 200
ExplanationReturned ==
    /\ phase = "request"
    /\ req.pc = "explaining"
    /\ req' = [req EXCEPT !.pc = "responded", !.status = 200, !.storeSent = TRUE]
    /\ UNCHANGED <<phase, primary, results, keyOrder, prop, propMap, report, call,
                   sent, okSeen, store, ai>>

\* Lines 107-118: the store request settles; a rejection is logged only
StoreSettled ==
    /\ phase = "request"
    /\ req.pc = "responded"
    /\ req.storeSent
    /\ ~req.storeSettled
    /\ req' = [req EXCEPT !.storeSettled = TRUE]
    /\ UNCHANGED <<phase, primary, results, keyOrder, prop, propMap, report, call,
                   sent, okSeen, store, ai>>

NextRequest ==
    \/ HandleDNSDiagnostic
    \/ \E threw \in BOOLEAN : DNSResultsReturned(threw)
    \/ ExplanationReturned
    \/ StoreSettled

SpecRequest == InitRequest /\ [][NextRequest]_vars

----------------------------------------------------------------------------
(* Properties *)

SupportedTypes == {"A", "AAAA", "CNAME", "MX", "NS", "TXT", "SOA", "CAA"}

ConfiguredResolvers ==
    {"https://cloudflare-dns.com/dns-query", "https://dns.google/resolve",
     "https://dns.quad9.net/dns-query"}

\* queryAllRecords has returned
AllRecordsReturned == phase \in {"propagate", "analyze", "reported"}

\* queryDNSWithPropagation has returned
RunReturned == phase \in {"analyze", "reported"}

\* checkPropagation(t) has returned and line 130 has assigned its mapping
PropagationReturned(t) ==
    t \in DOMAIN results /\ DOMAIN results[t].propagation # {}

\* C1: once queryAllRecords has returned, whatever queries succeeded or
\* failed, the keys of the result are exactly the eight supported record
\* types, each holding the entry of its own type.
C1_ExactlyTheEightTypes ==
    AllRecordsReturned =>
        /\ DOMAIN results = SupportedTypes
        /\ \A t \in DOMAIN results : results[t].recordType = t

C1_Witness ==
    /\ phase = "propagate"
    /\ results["NS"].primaryRecords # <<>>
    /\ results["A"].primaryRecords = <<>>

\* C2: in every report analyzeDNS returns, summary.errors + summary.warnings
\* + summary.info equals the number of issues.
C2_SummaryCountsIssues ==
    phase = "reported" =>
        report.summary.errors + report.summary.warnings + report.summary.info
            = Len(report.issues)

C2_Witness ==
    /\ phase = "reported"
    /\ report.summary.errors >= 2
    /\ report.summary.warnings >= 2
    /\ report.summary.info >= 2

\* C3: a record type's propagation mapping is non-empty only if the type has
\* primary records; for a type with no primary records the mapping stays
\* empty and no propagation query is ever issued.
C3_PropagationOnlyWithRecords ==
    \A t \in DOMAIN results :
        results[t].primaryRecords = <<>> =>
            /\ DOMAIN results[t].propagation = {}
            /\ DOMAIN propMap[t] = {}
            /\ \A u \in ResolverUrls : prop[t][u] = "idle"

C3_Witness ==
    /\ RunReturned
    /\ results["NS"].primaryRecords # <<>>
    /\ DOMAIN results["NS"].propagation = ConfiguredResolvers
    /\ results["MX"].primaryRecords = <<>>
    /\ DOMAIN results["MX"].propagation = {}

\* C4: queryDNS never throws; a network error, a non-success HTTP status and
\* an unparsable body each make it return null.
C4_QueryDNSNeverThrows ==
    (phase = "call" /\ call.done) =>
        /\ ~call.result.threw
        /\ call.fx.kind \in {"network_error", "http_error", "bad_body"}
               => call.result.value = NULL

C4_Witness ==
    /\ phase = "call"
    /\ call.done
    /\ call.recordType = "MX"
    /\ call.fx.kind = "bad_body"
    /\ call.result.value = NULL

\* C5: the mapping checkPropagation returns has one entry per configured
\* resolver whichever resolvers fail; the entry of a resolver that failed has
\* hasError = TRUE, and the entry of every other resolver has hasError =
\* FALSE and exactly the records that resolver sent.
C5_OneOutcomePerResolver ==
    \A t \in QueryTypes :
        PropagationReturned(t) =>
            /\ DOMAIN results[t].propagation = ConfiguredResolvers
            /\ \A u \in ConfiguredResolvers :
                  LET e == results[t].propagation[u]
                  IN  /\ ~sent[t][u].pending
                      /\ e.resolver = ResolverName(u)
                      /\ sent[t][u].failed => (e.hasError /\ e.records = <<>>)
                      /\ ~sent[t][u].failed =>
                            /\ ~e.hasError
                            /\ e.records = (IF sent[t][u].data.hasAnswer
                                            THEN sent[t][u].data.Answer ELSE <<>>)

C5_Witness ==
    /\ PropagationReturned("NS")
    /\ results["NS"].propagation[RESOLVERS.CLOUDFLARE].hasError
    /\ results["NS"].propagation[RESOLVERS.GOOGLE].records = ZoneRecords("NS")
    /\ results["NS"].propagation[RESOLVERS.QUAD9].records = StaleRecords("NS")

\* C6: queryAllRecords returns only when all eight branches have completed,
\* and checkPropagation returns only when the branches of all resolvers have
\* completed; no returned result has a branch still pending.
C6_FullJoin ==
    /\ AllRecordsReturned =>
          \A t \in SupportedTypes : primary[t] = "done" /\ t \in DOMAIN results
    /\ \A t \in QueryTypes :
          PropagationReturned(t) =>
              \A u \in ConfiguredResolvers :
                  prop[t][u] = "done" /\ u \in DOMAIN results[t].propagation

C6_Witness ==
    /\ phase = "propagate"
    /\ PropagationReturned("NS")
    /\ \E u \in ResolverUrls : results["NS"].propagation[u].hasError

\* C7: a propagation query for a record type is issued only after the
\* primary query for that type has completed and stored its record list.
C7_PropagationAfterPrimary ==
    \A t \in QueryTypes : \A u \in ResolverUrls :
        prop[t][u] # "idle" => (primary[t] = "done" /\ t \in DOMAIN results)

C7_Witness ==
    /\ phase = "propagate"
    /\ \A u \in ResolverUrls : prop["NS"][u] = "inflight"
    /\ primary["NS"] = "done"

\* C8: a resolver call that gets no response ends with a failure outcome
\* after a finite time, so the run still completes and returns its report.
C8_NoResponseStillCompletes == <>(phase = "reported")

\* C9: if every fetch that was started ends, with an answer or a failure,
\* the run ends with a report, whatever fails.
C9_RunTerminatesWithReport ==
    <>(phase = "reported" /\ report # NoReport /\ Len(report.issues) >= 1)

C9_Witness ==
    /\ phase = "reported"
    /\ report # NoReport
    /\ results["NS"].primaryRecords # <<>>
    /\ \A u \in ResolverUrls : results["NS"].propagation[u].hasError

\* The number of issues of the given type in a report
CountType(rep, type) ==
    Cardinality({i \in DOMAIN rep.issues : rep.issues[i].type = type})

\* C10: when every resolver query of the run failed, all eight types have
\* empty primaryRecords and empty propagation, and the report holds exactly
\* one missing_email_setup issue, of severity info, no error and no warning.
C10_TotalFailureReport ==
    (phase = "reported" /\ ~okSeen) =>
        /\ \A t \in SupportedTypes :
              /\ results[t].primaryRecords = <<>>
              /\ DOMAIN results[t].propagation = {}
        /\ CountType(report, "missing_email_setup") = 1
        /\ \A i \in DOMAIN report.issues :
              report.issues[i].type = "missing_email_setup"
                  => report.issues[i].severity = "info"
        /\ report.summary.errors = 0
        /\ report.summary.warnings = 0

C10_Witness ==
    /\ phase = "reported"
    /\ ~okSeen
    /\ report # NoReport
    /\ DOMAIN results = SupportedTypes

\* The failure value queryDNS returns for a resolver that cannot be reached
TransportFailureResult ==
    queryDNS("A", RESOLVERS.CLOUDFLARE, Fetch("network_error", NULL))

\* C11: a call of queryDNS with a record type outside the supported set
\* signals an error to its caller: its outcome differs from the outcome of a
\* call whose resolver cannot be reached (a returned null).
C11_UnsupportedTypeFailsFast ==
    (phase = "call" /\ call.done /\ call.recordType \notin DOMAIN DNS_RECORD_TYPES)
        => call.result # TransportFailureResult

\* The names under which the resolvers are configured
ResolverNames == {"CLOUDFLARE", "GOOGLE", "QUAD9"}

\* C12: every key of a propagation mapping checkPropagation produces is a
\* resolver name (CLOUDFLARE, GOOGLE, QUAD9), never an endpoint URL.
C12_KeysAreResolverNames ==
    \A t \in QueryTypes :
        /\ DOMAIN propMap[t] \subseteq ResolverNames
        /\ t \in DOMAIN results => DOMAIN results[t].propagation \subseteq ResolverNames

\* The set of lower-cased NS names of a record list
NSNames(records) == {toLowerCase(records[i].data) : i \in DOMAIN records}

\* The resolvers of the NS propagation that answered and whose NS names, as
\* a set, are not the primary ones
DivergentResolvers ==
    {u \in DOMAIN results["NS"].propagation :
        /\ ~results["NS"].propagation[u].hasError
        /\ NSNames(results["NS"].propagation[u].records)
               # NSNames(results["NS"].primaryRecords)}

\* C14: with non-empty primary NS records, the report holds exactly one
\* ns_mismatch issue, of severity error, if some resolver that answered has
\* a set of lower-cased NS names different from the primary set, however
\* many resolvers differ; it holds none if every resolver that answered has
\* the primary set, whatever the order, duplicates and letter case.
C14_NSMismatchIffSetsDiffer ==
    (phase = "reported" /\ results["NS"].primaryRecords # <<>>) =>
        /\ CountType(report, "ns_mismatch")
              = (IF DivergentResolvers # {} THEN 1 ELSE 0)
        /\ \A i \in DOMAIN report.issues :
              report.issues[i].type = "ns_mismatch"
                  => report.issues[i].severity = "error"

C14_Witness ==
    /\ phase = "reported"
    /\ results["NS"].primaryRecords # <<>>
    /\ Cardinality(DivergentResolvers) = 2
    /\ CountType(report, "ns_mismatch") = 1

\* Some primary CNAME record has an owner name that ends with "."
SomeCNAMEOwnerEndsWithDot ==
    \E i \in DOMAIN results["CNAME"].primaryRecords :
        LET name == results["CNAME"].primaryRecords[i].name
        IN  name # <<>> /\ name[Len(name)] = "."

\* The A or the AAAA primary record list is non-empty
HasAddressRecords ==
    results["A"].primaryRecords # <<>> \/ results["AAAA"].primaryRecords # <<>>

AllOfSeverity(rep, type, severity) ==
    \A i \in DOMAIN rep.issues :
        rep.issues[i].type = type => rep.issues[i].severity = severity

\* C16: the report holds exactly one missing_aaaa issue, a warning, if the A
\* primary list is non-empty and the AAAA primary list is empty, and no
\* missing_aaaa issue in every other case.
C16_MissingAAAA ==
    phase = "reported" =>
        /\ CountType(report, "missing_aaaa")
              = (IF results["A"].primaryRecords # <<>>
                      /\ results["AAAA"].primaryRecords = <<>>
                 THEN 1 ELSE 0)
        /\ AllOfSeverity(report, "missing_aaaa", "warning")

C16_Witness ==
    /\ phase = "reported"
    /\ results["A"].primaryRecords # <<>>
    /\ results["AAAA"].primaryRecords = <<>>
    /\ CountType(report, "missing_aaaa") = 1

\* Some TXT payload starts with the tag, letter case ignored
SomeTXTStartsWith(tag) ==
    \E i \in DOMAIN results["TXT"].primaryRecords :
        LET data == results["TXT"].primaryRecords[i].data
        IN  /\ Len(data) >= Len(tag)
            /\ \A k \in 1..Len(tag) :
                  data[k] = tag[k] \/ (data[k] \in DOMAIN LowerOf /\ LowerOf[data[k]] = tag[k])

\* C17: with MX and TXT both empty the report holds exactly one
\* missing_email_setup info and neither missing_spf nor missing_dmarc;
\* otherwise it holds no missing_email_setup, one missing_spf warning iff MX
\* is non-empty and no TXT payload starts with v=spf1 (case ignored), and
\* one missing_dmarc info iff MX is non-empty and no TXT payload starts with
\* v=dmarc1 (case ignored).  missing_email_setup never occurs together with
\* missing_spf or missing_dmarc.
C17_EmailSetup ==
    phase = "reported" =>
        LET hasMX == results["MX"].primaryRecords # <<>>
            hasTXT == results["TXT"].primaryRecords # <<>>
            setup == CountType(report, "missing_email_setup")
            spf == CountType(report, "missing_spf")
            dmarc == CountType(report, "missing_dmarc")
        IN  /\ (~hasMX /\ ~hasTXT) => (setup = 1 /\ spf = 0 /\ dmarc = 0)
            /\ (hasMX \/ hasTXT) =>
                  /\ setup = 0
                  /\ spf = (IF hasMX /\ ~SomeTXTStartsWith(STR_V_SPF1) THEN 1 ELSE 0)
                  /\ dmarc = (IF hasMX /\ ~SomeTXTStartsWith(STR_V_DMARC1)
                              THEN 1 ELSE 0)
            /\ setup > 0 => (spf = 0 /\ dmarc = 0)
            /\ AllOfSeverity(report, "missing_email_setup", "info")
            /\ AllOfSeverity(report, "missing_spf", "warning")
            /\ AllOfSeverity(report, "missing_dmarc", "info")

C17_Witness ==
    /\ phase = "reported"
    /\ results["MX"].primaryRecords # <<>>
    /\ Len(results["TXT"].primaryRecords) = 1
    /\ results["TXT"].primaryRecords[1].data = TXT_SPF_UPPER
    /\ CountType(report, "missing_spf") = 0
    /\ CountType(report, "missing_dmarc") = 1

\* The payloads of the primary TXT records
TXTData ==
    {results["TXT"].primaryRecords[i].data : i \in DOMAIN results["TXT"].primaryRecords}

\* data starts with the SPF tag, letter case ignored
HasSPFTag(data) ==
    /\ Len(data) >= Len(STR_V_SPF1)
    /\ \A k \in 1..Len(STR_V_SPF1) :
          data[k] = STR_V_SPF1[k]
              \/ (data[k] \in DOMAIN LowerOf /\ LowerOf[data[k]] = STR_V_SPF1[k])

\* The positions of the tokens of an SPF payload, the tag left out, that are
\* not empty, are not the literal all, and do not match the mechanism grammar
FailingTokens(data) ==
    LET tokens == Tail(split(data))
    IN  {k \in DOMAIN tokens :
            /\ tokens[k] # <<>>
            /\ tokens[k] # STR_ALL
            /\ ~validMechanisms(tokens[k])}

\* The number of primary TXT records with the given payload
TXTRecordsWith(data) ==
    Cardinality({i \in DOMAIN results["TXT"].primaryRecords :
                    results["TXT"].primaryRecords[i].data = data})

\* The number of spf_syntax_error issues of the report that carry the payload
SPFErrorsFor(data) ==
    Cardinality({i \in DOMAIN report.issues :
                    /\ report.issues[i].type = "spf_syntax_error"
                    /\ report.issues[i].details.record = data})

\* C18: each TXT SPF record with one or several tokens that fail the
\* mechanism grammar yields exactly one spf_syntax_error, of severity error,
\* that carries the record's text, and the report never holds more
\* spf_syntax_error issues than there are SPF TXT records.
C18_OneErrorPerRecord ==
    phase = "reported" =>
        /\ \A data \in TXTData :
              (HasSPFTag(data) /\ FailingTokens(data) # {})
                  => SPFErrorsFor(data) = TXTRecordsWith(data)
        /\ CountType(report, "spf_syntax_error")
              <= Cardinality({i \in DOMAIN results["TXT"].primaryRecords :
                                 HasSPFTag(results["TXT"].primaryRecords[i].data)})
        /\ AllOfSeverity(report, "spf_syntax_error", "error")

C18_Witness ==
    /\ phase = "reported"
    /\ Len(results["TXT"].primaryRecords) = 2
    /\ results["TXT"].primaryRecords[1].data = TXT_SPF_BAD2
    /\ results["TXT"].primaryRecords[2].data = TXT_SPF_BAD
    /\ Cardinality(FailingTokens(TXT_SPF_BAD2)) = 2
    /\ CountType(report, "spf_syntax_error") = 2

\* C19: a TXT record that starts with the SPF tag, letter case ignored, and
\* whose tokens all pass the mechanism grammar yields no spf_syntax_error;
\* every spf_syntax_error is for a record with a token that fails it.
C19_ErrorOnlyForFailingToken ==
    phase = "reported" =>
        /\ \A data \in TXTData :
              (HasSPFTag(data) /\ FailingTokens(data) = {})
                  => SPFErrorsFor(data) = 0
        /\ \A i \in DOMAIN report.issues :
              report.issues[i].type = "spf_syntax_error"
                  => FailingTokens(report.issues[i].details.record) # {}

\* The primary records, as <<record type, position>>, whose TTL is in S
RecordsWithTTLIn(S) ==
    UNION {{<<t, i>> : i \in {j \in DOMAIN results[t].primaryRecords :
                                 results[t].primaryRecords[j].TTL \in S}} :
              t \in SupportedTypes}

\* The issues of the report of the given type for record type t and TTL ttl
TTLIssuesFor(type, t, ttl) ==
    {i \in DOMAIN report.issues :
        /\ report.issues[i].type = type
        /\ report.issues[i].details.recordType = t
        /\ report.issues[i].details.ttl = ttl}

\* The TTL values of the primary records
TTLValues ==
    UNION {{results[t].primaryRecords[i].TTL : i \in DOMAIN results[t].primaryRecords} :
              t \in SupportedTypes}

\* C20: every primary record with TTL < 300 yields exactly one ttl_too_low
\* warning, every one with TTL > 86400 exactly one ttl_too_high info, and
\* one with 300 <= TTL <= 86400 neither; the TTL issues of a report are as
\* many as the primary records whose TTL is out of bounds.
C20_TTLBounds ==
    phase = "reported" =>
        /\ \A t \in SupportedTypes : \A ttl \in TTLValues :
              LET n == Cardinality({r \in RecordsWithTTLIn({ttl}) : r[1] = t})
              IN  /\ Cardinality(TTLIssuesFor("ttl_too_low", t, ttl))
                        = (IF ttl < 300 THEN n ELSE 0)
                  /\ Cardinality(TTLIssuesFor("ttl_too_high", t, ttl))
                        = (IF ttl > 86400 THEN n ELSE 0)
        /\ CountType(report, "ttl_too_low") + CountType(report, "ttl_too_high")
              = Cardinality(RecordsWithTTLIn({ttl \in TTLValues :
                                                 ttl < 300 \/ ttl > 86400}))
        /\ AllOfSeverity(report, "ttl_too_low", "warning")
        /\ AllOfSeverity(report, "ttl_too_high", "info")

C20_Witness ==
    /\ phase = "reported"
    /\ RecordsWithTTLIn({299}) # {}
    /\ RecordsWithTTLIn({86400}) # {}
    /\ RecordsWithTTLIn({86401}) # {}
    /\ CountType(report, "ttl_too_low") = 1
    /\ CountType(report, "ttl_too_high") = 1

\* C21: every report holds exactly one dnssec_check issue, of severity info,
\* and it is the last issue; so no report has an empty issue list, and
\* summary.info >= 1.
C21_DNSSECPlaceholderLast ==
    phase = "reported" =>
        /\ CountType(report, "dnssec_check") = 1
        /\ AllOfSeverity(report, "dnssec_check", "info")
        /\ Len(report.issues) >= 1
        /\ report.issues[Len(report.issues)].type = "dnssec_check"
        /\ report.summary.info >= 1

C21_Witness ==
    /\ phase = "reported"
    /\ \A t \in SupportedTypes : results[t].primaryRecords = <<>>
    /\ Len(report.issues) = 2
    /\ report.issues[2].type = "dnssec_check"

\* The position of the rule that emits issues of the given type, in the
\* order in which analyzeDNS is to run the rules
RuleOf(type) ==
    CASE type = "ns_mismatch" -> 1
      [] type = "cname_at_apex" -> 2
      [] type = "missing_aaaa" -> 3
      [] type \in {"missing_email_setup", "missing_spf", "missing_dmarc"} -> 4
      [] type = "spf_syntax_error" -> 5
      [] type \in {"ttl_too_low", "ttl_too_high"} -> 6
      [] type = "dnssec_check" -> 7
      [] OTHER -> 0

\* The number of issues the seven rules emit for the analysed result set
IssuesEmitted ==
    LET dnsResults == [byType |-> results, keys |-> keyOrder]
    IN  Len(checkNSMismatch(dnsResults)) + Len(checkCNAMEAtApex(dnsResults))
          + Len(checkMissingAAAA(dnsResults)) + Len(checkEmailSetup(dnsResults))
          + Len(checkSPFSyntax(dnsResults)) + Len(checkTTL(dnsResults))
          + Len(checkDNSSEC(dnsResults))

\* C22: in every report the issues are in rule order (ns_mismatch,
\* cname_at_apex, missing_aaaa, the email-setup issues, spf_syntax_error, the
\* TTL issues, dnssec_check), and the report holds every issue the rules
\* emitted: none is dropped or deduplicated.
C22_IssuesInRuleOrder ==
    phase = "reported" =>
        /\ \A i, j \in DOMAIN report.issues :
              i < j => RuleOf(report.issues[i].type) <= RuleOf(report.issues[j].type)
        /\ \A i \in DOMAIN report.issues : RuleOf(report.issues[i].type) > 0
        /\ Len(report.issues) = IssuesEmitted

C22_Witness ==
    /\ phase = "reported"
    /\ {RuleOf(report.issues[i].type) : i \in DOMAIN report.issues} = 1..7
    /\ SPFErrorsFor(TXT_SPF_BAD) = 2

\* Every primary record's TTL is within [300, 86400]
AllTTLsWithinBounds ==
    \A t \in SupportedTypes : \A i \in DOMAIN results[t].primaryRecords :
        /\ results[t].primaryRecords[i].TTL >= 300
        /\ results[t].primaryRecords[i].TTL <= 86400

\* A, AAAA, MX and NS hold records, every resolver has the primary NS set,
\* every TTL is within bounds, there is no CNAME, and TXT holds a DMARC
\* record and an SPF record, every SPF record being valid
HealthyDomain ==
    /\ \A t \in {"A", "AAAA", "MX", "NS"} : results[t].primaryRecords # <<>>
    /\ results["CNAME"].primaryRecords = <<>>
    /\ \A u \in DOMAIN results["NS"].propagation :
          /\ ~results["NS"].propagation[u].hasError
          /\ NSNames(results["NS"].propagation[u].records)
                 = NSNames(results["NS"].primaryRecords)
    /\ AllTTLsWithinBounds
    /\ SomeTXTStartsWith(STR_V_DMARC1)
    /\ \E data \in TXTData : HasSPFTag(data)
    /\ \A data \in TXTData : HasSPFTag(data) => FailingTokens(data) = {}

\* C23: for a healthy domain the report has errors = 0, warnings = 0 and
\* info = 1, and its single issue is the DNSSEC placeholder.
C23_HealthyDomainReport ==
    (phase = "reported" /\ HealthyDomain) =>
        /\ report.summary = [errors |-> 0, warnings |-> 0, info |-> 1]
        /\ Len(report.issues) = 1
        /\ report.issues[1].type = "dnssec_check"

\* The record types whose entry of results a step writes or changes
EntriesWritten ==
    {t \in DOMAIN results' :
        \/ t \notin DOMAIN results
        \/ results'[t].recordType # results[t].recordType
        \/ results'[t].primaryRecords # results[t].primaryRecords}

\* The <<record type, resolver>> slots of the propagation objects of
\* checkPropagation a step writes or changes
OutcomesWritten ==
    {<<t, u>> \in QueryTypes \X (DOMAIN RESOLVERS \cup ResolverUrls) :
        /\ u \in DOMAIN propMap'[t]
        /\ (u \notin DOMAIN propMap[t] \/ propMap'[t][u] # propMap[t][u])}

\* The record types whose propagation field a step assigns
PropagationsAssigned ==
    {t \in DOMAIN results \cap DOMAIN results' :
        results'[t].propagation # results[t].propagation}

\* A step writes a slot only through the branch that owns it, running then
\* and not before, and leaves every slot written earlier as it is
SlotsWrittenOnceByOwner ==
    /\ DOMAIN results \subseteq DOMAIN results'
    /\ \A t \in QueryTypes : DOMAIN propMap[t] \subseteq DOMAIN propMap'[t]
    /\ \A t \in EntriesWritten :
          /\ t \in QueryTypes /\ t \notin DOMAIN results
          /\ primary[t] = "inflight" /\ primary'[t] = "done"
          /\ EntriesWritten = {t}
    /\ \A s \in OutcomesWritten :
          /\ s[2] \notin DOMAIN propMap[s[1]]
          /\ prop[s[1]][s[2]] = "inflight" /\ prop'[s[1]][s[2]] = "done"
          /\ OutcomesWritten = {s}
    /\ \A t \in PropagationsAssigned :
          /\ DOMAIN results[t].propagation = {}
          /\ PropagationsAssigned = {t}
          /\ \E u \in ResolverUrls : prop[t][u] = "inflight"
          /\ \A u \in ResolverUrls : prop'[t][u] = "done"

\* C24: under every interleaving each result slot is written exactly once
\* and only by its own branch: a record-type branch of queryAllRecords
\* writes only its type's entry, a resolver branch of checkPropagation only
\* its resolver's entry, and a type's propagation field is assigned at most
\* once; no two branches write the same slot.
C24_EachSlotWrittenOnce == [][SlotsWrittenOnceByOwner]_vars

C24_Witness ==
    /\ phase = "analyze"
    /\ \A t \in SupportedTypes : primary[t] = "done"
    /\ \A u \in ResolverUrls : prop["NS"][u] = "done"
    /\ DOMAIN results["NS"].propagation = ConfiguredResolvers

\* The entries of type t's propagation mapping that are the primary
\* resolver's (Cloudflare's)
PrimaryResolverEntries(t) ==
    {k \in DOMAIN results[t].propagation :
        results[t].propagation[k].resolver = "CLOUDFLARE"}

\* C27 as stated: after queryDNSWithPropagation, in every non-empty
\* propagation mapping the primary resolver's (Cloudflare's) entry is a
\* success that holds the same records as the type's primaryRecords.
C27_PrimaryEntryHoldsPrimaryRecords ==
    RunReturned =>
        \A t \in DOMAIN results :
            DOMAIN results[t].propagation # {} =>
                /\ PrimaryResolverEntries(t) # {}
                /\ \A k \in PrimaryResolverEntries(t) :
                      /\ ~results[t].propagation[k].hasError
                      /\ results[t].propagation[k].records = results[t].primaryRecords

\* C27 as amended: after queryDNSWithPropagation, every non-empty
\* propagation mapping has exactly one entry of the primary resolver
\* (Cloudflare), and it is the outcome of checkPropagation's own, second
\* query to that resolver: a failure if that query failed, and otherwise a
\* success holding the records of the second answer, which are the type's
\* primaryRecords only if the resolver answered as it did the first time.
C27_PrimaryEntryIsSecondQuery ==
    RunReturned =>
        \A t \in DOMAIN results :
            DOMAIN results[t].propagation # {} =>
                /\ PrimaryResolverEntries(t) = {RESOLVERS.CLOUDFLARE}
                /\ LET e == results[t].propagation[RESOLVERS.CLOUDFLARE]
                       second == sent[t][RESOLVERS.CLOUDFLARE]
                   IN  /\ ~second.pending
                       /\ second.failed => (e.hasError /\ e.records = <<>>)
                       /\ ~second.failed =>
                             /\ ~e.hasError
                             /\ e.records = (IF second.data.hasAnswer
                                             THEN second.data.Answer ELSE <<>>)
                             /\ (second.data.hasAnswer
                                   /\ second.data.Answer = results[t].primaryRecords)
                                  => e.records = results[t].primaryRecords

C27_Witness ==
    /\ RunReturned
    /\ results["NS"].primaryRecords = ZoneRecords("NS")
    /\ DOMAIN results["NS"].propagation = ConfiguredResolvers
    /\ results["NS"].propagation[RESOLVERS.CLOUDFLARE].records = StaleRecords("NS")

\* The fetch of checkPropagation(t) to resolver u ended with HTTP success
\* and a body without an Answer member
AnsweredWithoutAnswer(t, u) ==
    /\ ~sent[t][u].pending
    /\ ~sent[t][u].failed
    /\ ~sent[t][u].data.hasAnswer

\* The ns_mismatch issues of the report
NSMismatchIssues ==
    {i \in DOMAIN report.issues : report.issues[i].type = "ns_mismatch"}

\* What C28 says of a state: the propagation entry of a resolver that
\* answered without Answer is a success with no records; with primary NS
\* records such a resolver is compared by the NS rule and makes it report a
\* mismatch, while a resolver whose query failed is left out of the
\* comparison
AnswerlessIsEmptySuccess ==
    /\ \A t \in QueryTypes : \A u \in ResolverUrls :
          (PropagationReturned(t) /\ AnsweredWithoutAnswer(t, u)) =>
              /\ ~results[t].propagation[u].hasError
              /\ results[t].propagation[u].records = <<>>
    /\ (phase = "reported" /\ results["NS"].primaryRecords # <<>>) =>
          /\ (\E u \in ResolverUrls : AnsweredWithoutAnswer("NS", u))
                => Cardinality(NSMismatchIssues) = 1
          /\ \A i \in NSMismatchIssues : \A u \in ResolverUrls :
                /\ AnsweredWithoutAnswer("NS", u) =>
                      /\ u \in DOMAIN report.issues[i].details.resolvers
                      /\ report.issues[i].details.resolvers[u] = <<>>
                /\ sent["NS"][u].failed =>
                      u \notin DOMAIN report.issues[i].details.resolvers
          /\ (\A u \in ResolverUrls :
                  \/ sent["NS"][u].failed
                  \/ /\ sent["NS"][u].data.hasAnswer
                     /\ NSNames(sent["NS"][u].data.Answer)
                            = NSNames(results["NS"].primaryRecords))
                => NSMismatchIssues = {}

\* What C28 says of a step: when the primary resolver's fetch for a type
\* ends with HTTP success and a body without Answer, queryAllRecords stores
\* an entry with empty primaryRecords for the type
AnswerlessPrimaryIsEmpty ==
    \A t \in QueryTypes :
        PrimaryResponse(t, Fetch("ok", DNSResponse(FALSE, <<>>))) =>
            /\ t \in DOMAIN results'
            /\ results'[t].primaryRecords = <<>>
            /\ phase' = "aggregate"

\* C28: a response with HTTP success and no Answer section is a successful
\* empty answer, not a failure: in checkPropagation the resolver's entry has
\* hasError = FALSE and no records, and in queryAllRecords the type's
\* primaryRecords is empty; so the NS rule compares such a resolver and
\* counts it as divergent when the primary NS set is non-empty, and skips a
\* resolver whose entry has hasError = TRUE.
C28_AnswerlessResponseIsEmptySuccess ==
    []AnswerlessIsEmptySuccess /\ [][AnswerlessPrimaryIsEmpty]_vars

C28_Witness ==
    /\ phase = "reported"
    /\ results["NS"].primaryRecords # <<>>
    /\ AnsweredWithoutAnswer("NS", RESOLVERS.GOOGLE)
    /\ sent["NS"][RESOLVERS.QUAD9].failed
    /\ Cardinality(NSMismatchIssues) = 1
    /\ results["A"].primaryRecords = <<>>

(* C25: the persisted history of a domain is exactly the 50 most recent     *)
(* entries ever stored for it: of each timestamp it holds as many entries   *)
(* as were stored, the oldest ones giving way once 50 newer ones exist.     *)
NewerAccepted(domain, ts) ==
    AcceptedCount(store.accepted, domain) - AcceptedUpTo(store.accepted, domain, ts)

MostRecentKept(domain, ts) ==
    LET room == HISTORY_LIMIT - NewerAccepted(domain, ts)
        had == store.accepted[domain][ts]
    IN  IF room <= 0 THEN 0 ELSE IF had <= room THEN had ELSE room

EntriesKept(domain, ts) ==
    Len(SelectSeq(storageGet(store.storage, domain),
                  LAMBDA e : e.timestamp = ts))

C25_HistoryIsMostRecentFifty ==
    phase = "store" =>
        \A d \in DOMAIN store.storage : \A ts \in Timestamps :
            EntriesKept(d, ts) = MostRecentKept(d, ts)

(* C26: after any sequence of store requests every domain's history holds   *)
(* at most 50 entries, newest first, each of that domain; a request lacking *)
(* domain, rawDiagnostics or aiExplanation is answered 400, any other 200,  *)
(* and a request answered 400 leaves the storage as it was.                 *)
HistoryBoundedAndSorted ==
    \A d \in DOMAIN store.storage :
        LET history == store.storage[d]
        IN  /\ Len(history) <= HISTORY_LIMIT
            /\ \A i \in 1..Len(history) : history[i].domain = d
            /\ \A i \in 1..(Len(history) - 1) :
                   history[i].timestamp >= history[i + 1].timestamp

LacksRequiredField(request) ==
    request.domain = "" \/ ~request.rawDiagnostics \/ ~request.aiExplanation

StoreValidated ==
    (phase = "store" /\ store.status # 0) =>
        /\ HistoryBoundedAndSorted
        /\ store.status = (IF LacksRequiredField(store.request) THEN 400 ELSE 200)

RejectedStoreChangesNothing ==
    (phase = "store" /\ store'.status = 400) =>
        /\ store'.storage = store.storage
        /\ store'.accepted = store.accepted

C26_HistoryBoundedSortedValidated ==
    []StoreValidated /\ [][RejectedStoreChangesNothing]_vars

C26_Witness ==
    /\ phase = "store"
    /\ store.status = 400
    /\ AcceptedCount(store.accepted, "ex.co") > HISTORY_LIMIT
    /\ Len(storageGet(store.storage, "ex.co")) = HISTORY_LIMIT
    /\ EntriesKept("ex.co", Oldest) > 0
    /\ EntriesKept("ex.co", Newest) > 0
    /\ Len(storageGet(store.storage, "w.ex.co")) > 0

(* C29: analyzeWithAI never raises.  It returns the Workers AI result when  *)
(* Workers AI succeeds, calls OpenAI only after Workers AI failed and only  *)
(* with a key configured, and returns the OpenAI result when that call      *)
(* succeeds; otherwise it returns the fallback explanation: one entry per   *)
(* rule-based issue, in order, with severity 8 for error, 5 for warning     *)
(* and 3 for info.                                                          *)
WorkersAISucceeded ==
    Len(ai.outcomes) >= 1 /\ ai.outcomes[1] \notin {"null", "rejected"}

OpenAISucceeded ==
    Len(ai.outcomes) = 2 /\ ai.outcomes[2] \in {"ok", "empty"}

IsFallbackOf(explanation, issues) ==
    /\ DOMAIN explanation = {"summary", "issues"}
    /\ Len(explanation.issues) = Len(issues)
    /\ \A i \in 1..Len(issues) :
          /\ explanation.issues[i].issue = issues[i].message
          /\ explanation.issues[i].severity =
                (CASE issues[i].severity = "error" -> 8
                   [] issues[i].severity = "warning" -> 5
                   [] issues[i].severity = "info" -> 3)

C29_AnalyzeWithAIFallsBack ==
    phase = "ai" =>
        /\ ai.pc # "raised"
        /\ (\E i \in DOMAIN ai.calls : ai.calls[i] = "openai") =>
              /\ ai.calls = <<"workers", "openai">>
              /\ ~WorkersAISucceeded
              /\ ai.keyConfigured
        /\ ai.pc = "returned" =>
              /\ WorkersAISucceeded =>
                    /\ ai.result = analyzeWithWorkersAI(ai.outcomes[1]).value
                    /\ ai.calls = <<"workers">>
              /\ (~WorkersAISucceeded /\ OpenAISucceeded) =>
                    ai.result = analyzeWithOpenAI(TRUE, ai.outcomes[2]).value
              /\ (~WorkersAISucceeded /\ ~OpenAISucceeded) =>
                    IsFallbackOf(ai.result, ai.issues)
              /\ (~WorkersAISucceeded /\ ~ai.keyConfigured) => ai.calls = <<"workers">>

C29_Witness ==
    /\ phase = "ai"
    /\ ai.pc = "returned"
    /\ ai.calls = <<"workers", "openai">>
    /\ ~OpenAISucceeded
    /\ Len(ai.issues) = MaxIssues
    /\ \A severity \in {"error", "warning", "info"} :
          \E i \in 1..Len(ai.issues) : ai.issues[i].severity = severity

(* C30: a GET /api/dns request whose domain is missing or fails             *)
(* validateDomain is answered 400 and causes no resolver query, no AI call  *)
(* and no history store; queries are sent only for a domain that passed     *)
(* validation.                                                              *)
DomainRejected ==
    req.domain.isNull \/ req.domain.value = <<>> \/ ~validateDomain(req.domain)

C30_InvalidDomainDoesNothing ==
    phase = "request" =>
        /\ DomainRejected =>
              /\ ~req.queried /\ ~req.aiCalled /\ ~req.storeSent
              /\ req.pc # "received" => (req.pc = "responded" /\ req.status = 400)
        /\ (req.queried \/ req.aiCalled \/ req.storeSent) => validateDomain(req.domain)

C30_Witness ==
    /\ phase = "request"
    /\ req.pc = "responded"
    /\ req.status = 400
    /\ ~req.domain.isNull
    /\ Len(dotParts(req.domain.value)) >= 2
    /\ \E k \in 1..(Len(dotParts(req.domain.value)) - 1) :
          Len(dotParts(req.domain.value)[k]) > 63

====
